---- MODULE Spec2Model ----
(***************************************************************************)
(* Model of the lead-generation backend's core: the ICP match-scoring      *)
(* engine and the "similar contacts" request of routes/projects.js, and    *)
(* the duplicate-identity resolver of routes/contacts.js.                  *)
(*                                                                         *)
(* Text is modelled as a sequence of one-character strings, so that        *)
(* lower-casing, trimming, substring search and digit-run extraction are   *)
(* computed the way the JavaScript computes them.                          *)
(***************************************************************************)
EXTENDS Integers, Sequences, FiniteSets, TLC

(***************************************************************************)
(* JavaScript values and string primitives                                 *)
(***************************************************************************)

\* parseCompanySize's "no number" result; every parsed size is >= 0.
null == -1

\* String.prototype.toLowerCase on one character of the model's alphabet.
LowerChar(c) ==
  CASE c = "A" -> "a"
    [] c = "B" -> "b"
    [] c = "C" -> "c"
    [] c = "F" -> "f"
    [] c = "N" -> "n"
    [] c = "S" -> "s"
    [] c = "T" -> "t"
    [] OTHER -> c

toLowerCase(s) == [i \in 1..Len(s) |-> LowerChar(s[i])]

\* String.prototype.includes: the needle occurs at some offset of the
\* haystack.  The empty needle occurs at offset 0 of every haystack.
includes(haystack, needle) ==
  \E i \in 0..(Len(haystack) - Len(needle)) :
    SubSeq(haystack, i + 1, i + Len(needle)) = needle

\* String.prototype.trim: drops leading and trailing whitespace.
RECURSIVE trimStart(_)
trimStart(s) ==
  IF s # <<>> /\ Head(s) = " " THEN trimStart(Tail(s)) ELSE s

RECURSIVE trimEnd(_)
trimEnd(s) ==
  IF s # <<>> /\ s[Len(s)] = " " THEN trimEnd(SubSeq(s, 1, Len(s) - 1)) ELSE s

trim(s) == trimEnd(trimStart(s))

\* [a, b, ...].filter(Boolean).join(' ')
RECURSIVE joinNonEmpty(_)
joinNonEmpty(parts) ==
  IF parts = <<>> THEN <<>>
  ELSE LET rest == joinNonEmpty(Tail(parts))
       IN  IF Head(parts) = <<>> THEN rest
           ELSE IF rest = <<>> THEN Head(parts)
           ELSE Head(parts) \o <<" ">> \o rest

(***************************************************************************)
(* parseCompanySize                                                        *)
(***************************************************************************)

Digits == {"0", "1", "2", "3", "4", "5", "6", "7", "8", "9"}

DigitValue(c) ==
  CASE c = "0" -> 0 [] c = "1" -> 1 [] c = "2" -> 2 [] c = "3" -> 3
    [] c = "4" -> 4 [] c = "5" -> 5 [] c = "6" -> 6 [] c = "7" -> 7
    [] c = "8" -> 8 [] c = "9" -> 9

\* parseInt of a digit run.
RECURSIVE parseInt(_)
parseInt(run) ==
  IF run = <<>> THEN 0
  ELSE 10 * parseInt(SubSeq(run, 1, Len(run) - 1)) + DigitValue(run[Len(run)])

\* str.match(/\d+/g): the maximal digit runs, as the set of their values
\* (only their maximum is used).
DigitRunValues(str) ==
  { parseInt(SubSeq(str, i, j)) :
      <<i, j>> \in { p \in (1..Len(str)) \X (1..Len(str)) :
                      /\ p[1] <= p[2]
                      /\ \A k \in p[1]..p[2] : str[k] \in Digits
                      /\ (p[1] = 1 \/ str[p[1] - 1] \notin Digits)
                      /\ (p[2] = Len(str) \/ str[p[2] + 1] \notin Digits) } }

SetMax(S) == CHOOSE x \in S : \A y \in S : y <= x

parseCompanySize(employeesStr) ==
  IF employeesStr = <<>> THEN null
  ELSE LET numbers == DigitRunValues(toLowerCase(employeesStr))
       IN  IF numbers = {} THEN null ELSE SetMax(numbers)

(***************************************************************************)
(* calculateMatchScore                                                     *)
(*                                                                         *)
(* An ICP definition is a record                                           *)
(*   [targetIndustries, targetJobTitles, geographies, keywords,            *)
(*    exclusionCriteria : sequences of texts,                              *)
(*    companySizeMin, companySizeMax : numbers or undefined].              *)
(* The score is a JavaScript number that need not be an integer (keyword   *)
(* partial credit): it is kept as the exact fraction num/den.              *)
(***************************************************************************)

\* A property that is not set.
undefined == -2

calculateMatchScore(contact, icpDefinition) ==
  LET \* Industry match (30 points)
      hasIndustries == Len(icpDefinition.targetIndustries) > 0
      contactIndustry == toLowerCase(contact.industry)
      matchedIndustries ==
        SelectSeq(icpDefinition.targetIndustries,
                  LAMBDA ind : \/ includes(contactIndustry, toLowerCase(ind))
                               \/ includes(toLowerCase(ind), contactIndustry))
      industryHit == hasIndustries /\ Len(matchedIndustries) > 0
      \* Job title match (25 points)
      hasTitles == Len(icpDefinition.targetJobTitles) > 0
      contactTitle == toLowerCase(contact.title)
      matchedTitles ==
        SelectSeq(icpDefinition.targetJobTitles,
                  LAMBDA jt : \/ includes(contactTitle, toLowerCase(jt))
                              \/ includes(toLowerCase(jt), contactTitle))
      titleHit == hasTitles /\ Len(matchedTitles) > 0
      \* Company size match (20 points)
      hasSize == /\ icpDefinition.companySizeMin # undefined
                 /\ icpDefinition.companySizeMax # undefined
      companySize == parseCompanySize(contact.employees)
      sizeHit == /\ hasSize
                 /\ companySize # null /\ companySize # 0     \* truthiness
                 /\ companySize >= icpDefinition.companySizeMin
                 /\ companySize <= icpDefinition.companySizeMax
      \* Geography match (15 points)
      hasGeos == Len(icpDefinition.geographies) > 0
      contactLocation ==
        toLowerCase(joinNonEmpty(<<contact.city, contact.state, contact.country,
                                   contact.companyCity, contact.companyState,
                                   contact.companyCountry>>))
      matchedGeos ==
        SelectSeq(icpDefinition.geographies,
                  LAMBDA geo : includes(contactLocation, toLowerCase(geo)))
      geoHit == hasGeos /\ Len(matchedGeos) > 0
      \* Keywords match (10 points, partial credit)
      hasKeywords == Len(icpDefinition.keywords) > 0
      contactKeywords == toLowerCase(contact.keywords)
      matchedKeywords ==
        SelectSeq(icpDefinition.keywords,
                  LAMBDA kw : includes(contactKeywords, toLowerCase(kw)))
      keywordHit == hasKeywords /\ Len(matchedKeywords) > 0
      kwDen == IF keywordHit THEN Len(icpDefinition.keywords) ELSE 1
      \* Math.min(10, (matched / total) * 10), as a numerator over kwDen
      kwNum == IF ~keywordHit THEN 0
               ELSE IF 10 * Len(matchedKeywords) > 10 * kwDen THEN 10 * kwDen
               ELSE 10 * Len(matchedKeywords)
      whole == (IF industryHit THEN 30 ELSE 0) + (IF titleHit THEN 25 ELSE 0)
               + (IF sizeHit THEN 20 ELSE 0) + (IF geoHit THEN 15 ELSE 0)
      maxScore == (IF hasIndustries THEN 30 ELSE 0) + (IF hasTitles THEN 25 ELSE 0)
                  + (IF hasSize THEN 20 ELSE 0) + (IF hasGeos THEN 15 ELSE 0)
                  + (IF hasKeywords THEN 10 ELSE 0)
      score == [num |-> whole * kwDen + kwNum, den |-> kwDen]
  IN  [ score |-> score,
        maxScore |-> maxScore,
        percentage |-> IF maxScore > 0
                       THEN [num |-> 100 * score.num, den |-> score.den * maxScore]
                       ELSE [num |-> 0, den |-> 1],
        \* pushed in the order 30, 25, 20, 15, 10, which the final sort by
        \* descending weight leaves as it is
        recommendationReasons |->
          (IF industryHit THEN <<"industry">> ELSE <<>>)
          \o (IF titleHit THEN <<"jobTitle">> ELSE <<>>)
          \o (IF sizeHit THEN <<"companySize">> ELSE <<>>)
          \o (IF geoHit THEN <<"geography">> ELSE <<>>)
          \o (IF keywordHit THEN <<"keywords">> ELSE <<>>),
        matchedCriteria |->
          [ industries |-> IF industryHit THEN matchedIndustries ELSE <<>>,
            jobTitles |-> IF titleHit THEN matchedTitles ELSE <<>>,
            companySize |-> sizeHit,
            geographies |-> IF geoHit THEN matchedGeos ELSE <<>>,
            keywords |-> IF keywordHit THEN matchedKeywords ELSE <<>> ] ]

\* Comparison of a fraction with an integer, and rounding to the nearest
\* integer (Math.round: halves round up).
FracGeq(f, n) == f.num >= n * f.den
FracLt(f, n) == f.num < n * f.den
FracEq(f, g) == f.num * g.den = g.num * f.den
MathRound(f) == (2 * f.num + f.den) \div (2 * f.den)

\* A faulty classification, whose first threshold is strict.
matchTypeOfStrict(matchPercentage) ==
  IF ~FracGeq(matchPercentage, 80) \/ FracEq(matchPercentage, [num |-> 80, den |-> 1])
  THEN (IF FracGeq(matchPercentage, 50) THEN "good"
        ELSE IF FracGeq(matchPercentage, 30) THEN "similar"
        ELSE "loose")
  ELSE "exact"

\* The tier of a percentage.
matchTypeOf(matchPercentage) ==
  IF FracGeq(matchPercentage, 80) THEN "exact"
  ELSE IF FracGeq(matchPercentage, 50) THEN "good"
  ELSE IF FracGeq(matchPercentage, 30) THEN "similar"
  ELSE "loose"

(***************************************************************************)
(* The stores.                                                             *)
(*   contacts : the Contact collection, in retrieval (insertion) order     *)
(*   links    : the ProjectContact collection of the project, in           *)
(*              retrieval order                                            *)
(*   project  : the one project document                                   *)
(* and the requests in flight.                                             *)
(*   req      : the similar-contacts request (its position and locals)     *)
(*   scoreArgs, scoreRes : one application of the scoring step             *)
(*   dup      : the create-contact request                                 *)
(*   imp      : the bulk-import request                                    *)
(*   put      : the link-upsert request                                    *)
(*   listing  : the contacts-listing or companies-listing request          *)
(*   imp2     : a second bulk-import request, in flight with the first     *)
(***************************************************************************)
VARIABLES contacts, links, project, req, scoreArgs, scoreRes, dup, imp, put,
          listing, imp2

vars ==
  <<contacts, links, project, req, scoreArgs, scoreRes, dup, imp, put, listing, imp2>>
storeVars == <<contacts, links, project>>

\* Bounds of the model.
MaxContacts == 3
MaxKeywords == 3
MaxPosted == 2

\* const batchSize = 100, scaled down so that a pool of MaxContacts
\* candidates spans more than one batch.
batchSize == 2

\* parseInt(req.query.limit) || 500
DefaultLimit == 500

\* The project of the model; any other id names no project.
ProjectId == 1

EmptyContact ==
  [ name |-> <<>>, email |-> <<>>, company |-> <<>>, title |-> <<>>,
    industry |-> <<>>, keywords |-> <<>>, employees |-> <<>>,
    firstPhone |-> <<>>, city |-> <<>>, state |-> <<>>, country |-> <<>>,
    companyCity |-> <<>>, companyState |-> <<>>, companyCountry |-> <<>> ]

\* A record with some fields set or replaced (object spread).
Assign(obj, fields) == fields @@ obj

\* Contact.create: the document gets the schema's defaults for the fields
\* it does not set and a fresh _id.
NewContactDoc(data, id) == Assign(Assign(EmptyContact, data), [_id |-> id])

NextContactId == Len(contacts) + 1

\* const processedIcp = {...} of POST /projects
processedIcp(icpInput) ==
  [ targetIndustries |-> icpInput.targetIndustries,
    targetJobTitles |-> icpInput.targetJobTitles,
    companySizeMin |-> IF icpInput.companySizeMin \in {undefined, 0}
                       THEN 0 ELSE icpInput.companySizeMin,
    companySizeMax |-> IF icpInput.companySizeMax \in {undefined, 0}
                       THEN 1000 ELSE icpInput.companySizeMax,
    geographies |-> icpInput.geographies,
    keywords |-> icpInput.keywords,
    exclusionCriteria |-> icpInput.exclusionCriteria ]

(***************************************************************************)
(* GET /:id/similar-contacts                                               *)
(***************************************************************************)

\* new RegExp(escaped(pattern), 'i').test(text): the escaped pattern is a
\* literal, matched anywhere in the text without regard to case.
regexI(text, pattern) == includes(toLowerCase(text), toLowerCase(pattern))

hasMeaningfulCompanySize(icpDefinition) ==
  /\ icpDefinition.companySizeMin # undefined
  /\ icpDefinition.companySizeMax # undefined
  /\ ~(icpDefinition.companySizeMin = 0 /\ icpDefinition.companySizeMax = 1000)

hasICP(icpDefinition) ==
  \/ Len(icpDefinition.targetIndustries) > 0
  \/ Len(icpDefinition.targetJobTitles) > 0
  \/ Len(icpDefinition.geographies) > 0
  \/ Len(icpDefinition.keywords) > 0
  \/ hasMeaningfulCompanySize(icpDefinition)

\* The conditions pushed on orConditions, in order.  There is none for the
\* company size.
orConditions(icpDefinition) ==
  (IF Len(icpDefinition.targetIndustries) > 0
   THEN <<[field |-> "industry", patterns |-> icpDefinition.targetIndustries]>>
   ELSE <<>>)
  \o (IF Len(icpDefinition.targetJobTitles) > 0
      THEN <<[field |-> "title", patterns |-> icpDefinition.targetJobTitles]>>
      ELSE <<>>)
  \o (IF Len(icpDefinition.geographies) > 0
      THEN <<[field |-> "geo", patterns |-> icpDefinition.geographies]>>
      ELSE <<>>)
  \o (IF Len(icpDefinition.keywords) > 0
      THEN <<[field |-> "keywords", patterns |-> icpDefinition.keywords]>>
      ELSE <<>>)

GeoFields == {"city", "state", "country", "companyCity", "companyState", "companyCountry"}

\* One entry of $or against a stored contact.
matchesCondition(contact, cond) ==
  \E k \in 1..Len(cond.patterns) :
    IF cond.field = "geo"
    THEN \E f \in GeoFields : regexI(contact[f], cond.patterns[k])
    ELSE regexI(contact[cond.field], cond.patterns[k])

\* contactFilter, as built before the query:
\*   $or   over orConditions,
\*   email $ne the project's contact person (when that email is set),
\*   $nor  over industry / company / keywords for every exclusion,
\*   _id   $nin the already-imported contact ids (when there are any).
matchesContactFilter(contact, proj, importedContactIds) ==
  LET icpDefinition == proj.icpDefinition
      conds == orConditions(icpDefinition)
  IN  /\ \E k \in 1..Len(conds) : matchesCondition(contact, conds[k])
      /\ (proj.contactPerson.email # <<>> => contact.email # proj.contactPerson.email)
      /\ ~ \E k \in 1..Len(icpDefinition.exclusionCriteria) :
             \E f \in {"industry", "company", "keywords"} :
               regexI(contact[f], icpDefinition.exclusionCriteria[k])
      /\ contact._id \notin importedContactIds

\* .populate('contactId', fields): the link with its contact document in
\* place of the id, as a sequence of zero (no such contact) or one document,
\* restricted to the selected fields.
Restrict(doc, dropped) == [f \in (DOMAIN doc) \ dropped |-> doc[f]]

populate(link, dropped) ==
  LET found == SelectSeq(contacts, LAMBDA c : c._id = link.contactId)
  IN  [link EXCEPT !.contactId =
         IF found = <<>> THEN <<>> ELSE <<Restrict(found[1], dropped)>>]

findProjectContacts(dropped) ==
  [k \in 1..Len(links) |-> populate(links[k], dropped)]

\* importedProjectContacts.filter(pc => pc.contactId && pc.contactId._id)
\*                        .map(pc => ({...pc.contactId, ...}))
importedEntries(importedProjectContacts, withScore) ==
  LET kept == SelectSeq(importedProjectContacts, LAMBDA pc : pc.contactId # <<>>)
  IN  [k \in 1..Len(kept) |->
         Assign(kept[k].contactId[1],
                [ projectContactId |-> kept[k]._id,
                  stage |-> IF kept[k].stage = "" THEN "New" ELSE kept[k].stage,
                  assignedTo |-> kept[k].assignedTo,
                  priority |-> IF kept[k].priority = "" THEN "Medium" ELSE kept[k].priority,
                  isImported |-> TRUE,
                  matchType |-> "imported" ]
                @@ (IF withScore THEN [matchScore |-> 100] ELSE [isImported |-> TRUE]))]

\* The response of the two branches that return only the imported contacts.
importedOnlyResponse ==
  LET data == importedEntries(findProjectContacts({}), FALSE)
  IN  [ status |-> 200, data |-> data, count |-> Len(data), hasICP |-> FALSE,
        matchStats |-> [exact |-> 0, good |-> 0, similar |-> 0, loose |-> 0,
                        imported |-> Len(data)] ]

\* The body of the scoring loop for one candidate.
scoreContact(contact, icpDefinition) ==
  LET matchResult == calculateMatchScore(contact, icpDefinition)
      matchPercentage == matchResult.percentage
  IN  Assign(contact,
             [ matchScore |-> MathRound(matchPercentage),
               matchType |-> matchTypeOf(matchPercentage),
               isImported |-> FALSE,
               recommendationReasons |-> matchResult.recommendationReasons,
               matchedCriteria |-> matchResult.matchedCriteria,
               stage |-> "New", assignedTo |-> "", priority |-> "Medium" ])

\* typeOrder[matchType] || 99
typeOrder(matchType) ==
  CASE matchType = "exact" -> 0
    [] matchType = "good" -> 1
    [] matchType = "similar" -> 2
    [] matchType = "loose" -> 3
    [] matchType = "imported" -> -1

typeRank(matchType) ==
  IF typeOrder(matchType) = 0 THEN 99 ELSE typeOrder(matchType)

\* The comparator of scoredContacts.sort.
compareScored(a, b) ==
  LET typeDiff == typeRank(a.matchType) - typeRank(b.matchType)
  IN  IF typeDiff # 0 THEN typeDiff ELSE b.matchScore - a.matchScore

\* Array.prototype.sort is stable: an element goes behind every element that
\* does not compare greater than it.
RECURSIVE insertSorted(_, _)
insertSorted(sorted, x) ==
  IF sorted = <<>> THEN <<x>>
  ELSE IF compareScored(sorted[Len(sorted)], x) <= 0 THEN Append(sorted, x)
  ELSE Append(insertSorted(SubSeq(sorted, 1, Len(sorted) - 1), x), sorted[Len(sorted)])

RECURSIVE sortScored(_)
sortScored(arr) ==
  IF arr = <<>> THEN <<>>
  ELSE insertSorted(sortScored(SubSeq(arr, 1, Len(arr) - 1)), arr[Len(arr)])

\* A count that takes every entry for one of the tier.
countTypeAny(arr, t) == Len(arr)

countType(arr, t) == Len(SelectSeq(arr, LAMBDA c : c.matchType = t))

IdleReq == [pc |-> "idle"]

\* await Project.findOne; then, up to the next await: the 404, the hasICP
\* test and the construction of the filter.
SimLoadProject(id) ==
  /\ req.pc = "idle"
  /\ req' = IF id # ProjectId
            THEN [pc |-> "done", response |-> [status |-> 404]]
            ELSE IF ~hasICP(project.icpDefinition)
                    \/ Len(orConditions(project.icpDefinition)) = 0
            THEN [pc |-> "findImportedOnly", project |-> project]
            ELSE [pc |-> "findLinks", project |-> project]
  /\ UNCHANGED <<storeVars, scoreArgs, scoreRes, dup, imp, put, listing, imp2>>

\* await ProjectContact.find(...).populate(...) of the no-ICP / no-criteria
\* branches, and their response.
SimRespondImportedOnly ==
  /\ req.pc = "findImportedOnly"
  /\ req' = [pc |-> "done", project |-> req.project, response |-> importedOnlyResponse]
  /\ UNCHANGED <<storeVars, scoreArgs, scoreRes, dup, imp, put, listing, imp2>>

\* await ProjectContact.find(...).populate(...): the imported contacts, their
\* ids, and the $nin of the filter.
SimFindLinks ==
  /\ req.pc = "findLinks"
  /\ LET importedProjectContacts == findProjectContacts({"employees"})
     IN  req' = [ pc |-> "findContacts", project |-> req.project,
                  importedProjectContacts |-> importedProjectContacts,
                  importedContactIds |->
                    { importedProjectContacts[k].contactId[1]._id :
                        k \in { j \in 1..Len(importedProjectContacts) :
                                  importedProjectContacts[j].contactId # <<>> } } ]
  /\ UNCHANGED <<storeVars, scoreArgs, scoreRes, dup, imp, put, listing, imp2>>

\* A faulty merge, which lists the scored candidates first.
mergeContactsScoredFirst(allContacts, scoredContacts) == scoredContacts \o allContacts

\* allContacts.push(...scoredContacts)
mergeContacts(allContacts, scoredContacts) == allContacts \o scoredContacts

\* res.json({...}) of the scoring branch.
scoredResponse(allContacts, scoredContacts) ==
  [ status |-> 200, data |-> allContacts, count |-> Len(allContacts),
    hasICP |-> TRUE,
    matchStats |->
      [ exact |-> countType(scoredContacts, "exact"),
        good |-> countType(scoredContacts, "good"),
        similar |-> countType(scoredContacts, "similar"),
        loose |-> countType(scoredContacts, "loose"),
        imported |-> Len(SelectSeq(allContacts, LAMBDA c : c.isImported)) ] ]

\* After the loop: the sort (when there is something to sort), the merge and
\* the response.
finishScoring(r, scoredContacts) ==
  [ pc |-> "done", project |-> r.project,
    importedProjectContacts |-> r.importedProjectContacts,
    similarContacts |-> r.similarContacts,
    response |-> scoredResponse(mergeContacts(r.allContacts, scoredContacts),
                                scoredContacts) ]

\* The candidates of the batch at index i that are not imported, scored.
scoreBatch(r, i) ==
  LET n == Len(r.similarContacts)
      batch == SubSeq(r.similarContacts, i + 1,
                      IF i + batchSize < n THEN i + batchSize ELSE n)
      fresh == SelectSeq(batch, LAMBDA c : c._id \notin r.importedContactIds)
  IN  [k \in 1..Len(fresh) |-> scoreContact(fresh[k], r.project.icpDefinition)]

\* A loop that sorts what it has at each yield and not after the last batch.
afterBatchSortedAtYield(r, i, scoredContacts) ==
  IF i + batchSize < Len(r.similarContacts)
  THEN [r EXCEPT !.pc = "yield", !.i = i + batchSize,
                 !.scoredContacts = sortScored(scoredContacts)]
  ELSE finishScoring(r, scoredContacts)

\* The end of one pass of the outer loop: the yield when a batch is left,
\* else what follows the loop.
afterBatch(r, i, scoredContacts) ==
  IF i + batchSize < Len(r.similarContacts)
  THEN [r EXCEPT !.pc = "yield", !.i = i + batchSize, !.scoredContacts = scoredContacts]
  ELSE finishScoring(r, IF Len(scoredContacts) > 0 THEN sortScored(scoredContacts)
                        ELSE scoredContacts)

\* One pass of the outer scoring loop from index i, and what follows it up to
\* the next await.
scoreFrom(r, i, scoredBefore) == afterBatch(r, i, scoredBefore \o scoreBatch(r, i))

\* await Contact.find(contactFilter).limit(limit), the imported entries, and
\* the first pass of the scoring loop.
SimFindContacts(limitQuery) ==
  /\ req.pc = "findContacts"
  /\ LET limit == IF limitQuery = 0 THEN DefaultLimit ELSE limitQuery
         matching == SelectSeq(contacts,
                       LAMBDA c : matchesContactFilter(c, req.project, req.importedContactIds))
         similarContacts == SubSeq(matching, 1, IF Len(matching) < limit THEN Len(matching) ELSE limit)
         r == [ pc |-> "scoring", project |-> req.project,
                importedProjectContacts |-> req.importedProjectContacts,
                importedContactIds |-> req.importedContactIds,
                similarContacts |-> similarContacts,
                allContacts |-> importedEntries(req.importedProjectContacts, TRUE),
                scoredContacts |-> <<>>, i |-> 0 ]
     IN  req' = scoreFrom(r, 0, <<>>)
  /\ UNCHANGED <<storeVars, scoreArgs, scoreRes, dup, imp, put, listing, imp2>>

\* The loop resumes after setImmediate.
SimResume ==
  /\ req.pc = "yield"
  /\ req' = scoreFrom(req, req.i, req.scoredContacts)
  /\ UNCHANGED <<storeVars, scoreArgs, scoreRes, dup, imp, put, listing, imp2>>

(***************************************************************************)
(* Writers of the stores                                                   *)
(***************************************************************************)

\* Contact.create(data): the document is stored as given (the schema trims
\* and lower-cases nothing).
ContactCreate(data) ==
  /\ Len(contacts) < MaxContacts
  /\ contacts' = Append(contacts, NewContactDoc(data, NextContactId))
  /\ UNCHANGED <<links, project, req, scoreArgs, scoreRes, dup, imp, put, listing, imp2>>

\* PUT /:projectId/project-contacts/:contactId: creates the link when the
\* pair has none (the contact itself is not looked up), else updates it.
LinkUpsert(contactId, stage, priority) ==
  /\ LET existing == { k \in 1..Len(links) : links[k].contactId = contactId }
     IN  IF existing = {}
         THEN links' = Append(links,
                [ _id |-> Len(links) + 1, contactId |-> contactId,
                  stage |-> IF stage = "" THEN "New" ELSE stage,
                  assignedTo |-> "",
                  priority |-> IF priority = "" THEN "Medium" ELSE priority ])
         ELSE links' = [k \in 1..Len(links) |->
                IF k \in existing
                THEN [links[k] EXCEPT
                        !.stage = IF stage # "" THEN stage ELSE @,
                        !.priority = IF priority # "" THEN priority ELSE @]
                ELSE links[k]]
  /\ UNCHANGED <<contacts, project, req, scoreArgs, scoreRes, dup, imp, put, listing, imp2>>

(***************************************************************************)
(* Inputs                                                                  *)
(***************************************************************************)

\* Texts of the ICP and of the contacts' fields.
SaaS == <<"S", "a">>          \* a target industry
CTO == <<"C", "t">>           \* a target job title
Calif == <<"C", "a">>         \* a target geography
KeywordPool == <<<<"f">>, <<"p">>, <<"a">>, <<"t">>, <<"b">>>>

IcpInput(ind, jt, min, max, geo, kw) ==
  [ targetIndustries |-> ind, targetJobTitles |-> jt,
    companySizeMin |-> min, companySizeMax |-> max,
    geographies |-> geo, keywords |-> kw, exclusionCriteria |-> <<>> ]

SizeInputs == { <<undefined, undefined>>, <<50, 500>>, <<0, 500>> }

\* The ICPs a project is scored against.
ScoreIcps ==
  { processedIcp(IcpInput(ind, jt, size[1], size[2], geo, SubSeq(KeywordPool, 1, k))) :
      ind \in {<<>>, <<SaaS>>}, jt \in {<<>>, <<CTO>>}, size \in SizeInputs,
      geo \in {<<>>, <<Calif>>}, k \in 0..MaxKeywords }

\* The contacts that are scored.
ScoreContacts ==
  { Assign(EmptyContact,
           [ industry |-> ind, title |-> jt, employees |-> emp, keywords |-> kw ] @@ loc) :
      ind \in { <<>>, <<"b", " ", "s", "a">>, <<"s">>, <<"r">> },
      jt \in { <<>>, <<"c", "t">>, <<"v">> },
      emp \in { <<>>, <<"e">>, <<"0">>, <<"4", "9">>, <<"5", "0">>, <<"5", "0", "0">>,
                <<"5", "0", "1">>, <<"5", "-", "2", "0", "0">>, <<"2", "0", "0", "-", "5">> },
      loc \in { [state |-> <<>>], [state |-> Calif], [companyCity |-> <<"c", "a">>] },
      kw \in { <<>>, <<"f">>, <<"f", " ", "a">>, <<"f", " ", "p", " ", "a">> } }

\* The documents created in the Contact store of the similar-contacts
\* requests.
SimilarDocs ==
  { [ industry |-> <<"b", " ", "s", "a">>, title |-> <<"c", "t">>,
      employees |-> <<"2", "0", "0">>, state |-> Calif, keywords |-> <<"f">> ],
    [ industry |-> <<"r">>, title |-> <<"v">>, keywords |-> <<"f">> ],
    [ industry |-> <<"r">>, title |-> <<"c", "t">>, keywords |-> <<"f", " ", "p">> ],
    [ industry |-> <<"r">>, title |-> <<"v">>, employees |-> <<"2", "0", "0">> ] }

\* The ICPs of the project of the similar-contacts requests.
SimilarIcps ==
  { processedIcp(i) :
      i \in { IcpInput(<<>>, <<>>, undefined, undefined, <<>>, <<>>),
              IcpInput(<<>>, <<>>, 50, 500, <<>>, <<>>),
              IcpInput(<<SaaS>>, <<>>, undefined, undefined, <<>>, <<>>),
              IcpInput(<<SaaS>>, <<CTO>>, 50, 500, <<Calif>>, <<<<"f">>>>),
              IcpInput(<<>>, <<>>, undefined, undefined, <<>>, <<<<"f">>, <<"p">>>>) } }

StageInputs == {""}
PriorityInputs == {""}
LimitQueries == {0, 2}

(***************************************************************************)
(* The scoring step applied to one contact and one ICP                     *)
(***************************************************************************)

ScoreCandidate ==
  /\ scoreRes = <<>>
  /\ scoreRes' = << [ matchResult |-> calculateMatchScore(scoreArgs.contact, scoreArgs.icp),
                      scored |-> scoreContact(scoreArgs.contact, scoreArgs.icp) ] >>
  /\ UNCHANGED <<storeVars, req, scoreArgs, dup, imp, put, listing, imp2>>

NoScoreArgs == [contact |-> EmptyContact, icp |-> processedIcp(IcpInput(<<>>, <<>>, undefined, undefined, <<>>, <<>>))]
NoProject == [icpDefinition |-> NoScoreArgs.icp, contactPerson |-> [email |-> <<>>]]
IdleDup == [pc |-> "idle"]
IdleImp == [pc |-> "idle", n |-> 0]
IdlePut == [pc |-> "idle", n |-> 0]
IdleListing == [pc |-> "idle"]

InitScore ==
  /\ contacts = <<>> /\ links = <<>> /\ project = NoProject
  /\ req = IdleReq /\ dup = IdleDup /\ imp = IdleImp /\ put = IdlePut
  /\ listing = IdleListing /\ imp2 = IdleImp
  /\ scoreArgs \in [contact : ScoreContacts, icp : ScoreIcps]
  /\ scoreRes = <<>>

NextScore == ScoreCandidate

SpecScore == InitScore /\ [][NextScore]_vars

(***************************************************************************)
(* The similar-contacts request over a store that is being written         *)
(***************************************************************************)

InitSimilar ==
  /\ contacts = <<>> /\ links = <<>>
  /\ project \in [icpDefinition : SimilarIcps, contactPerson : {[email |-> <<>>]}]
  /\ req = IdleReq /\ dup = IdleDup /\ imp = IdleImp /\ put = IdlePut
  /\ listing = IdleListing /\ imp2 = IdleImp
  /\ scoreArgs = NoScoreArgs /\ scoreRes = <<>>

\* The store is written before the request starts.
NextSimilar ==
  \/ req.pc = "idle" /\ \E data \in SimilarDocs : ContactCreate(data)
  \/ req.pc = "idle" /\ \E id \in 1..MaxContacts, stage \in StageInputs,
                            priority \in PriorityInputs :
                         LinkUpsert(id, stage, priority)
  \/ \E id \in {ProjectId, ProjectId + 1} : SimLoadProject(id)
  \/ SimRespondImportedOnly
  \/ SimFindLinks
  \/ \E limitQuery \in LimitQueries : SimFindContacts(limitQuery)
  \/ SimResume

SpecSimilar == InitSimilar /\ [][NextSimilar]_vars

\* The stores are written at any time, also between the steps of the
\* request.
BusyDocs ==
  { [ industry |-> <<"r">>, title |-> <<"v">>, keywords |-> <<"f">> ],
    [ industry |-> <<"r">>, title |-> <<"c", "t">>, keywords |-> <<"f", " ", "p">> ] }

BusyIcps ==
  { processedIcp(i) :
      i \in { IcpInput(<<>>, <<>>, undefined, undefined, <<>>, <<>>),
              IcpInput(<<>>, <<>>, undefined, undefined, <<>>, <<<<"f">>, <<"p">>>>) } }

InitSimilarBusy ==
  /\ contacts = <<>> /\ links = <<>>
  /\ project \in [icpDefinition : BusyIcps, contactPerson : {[email |-> <<>>]}]
  /\ req = IdleReq /\ dup = IdleDup /\ imp = IdleImp /\ put = IdlePut
  /\ listing = IdleListing /\ imp2 = IdleImp
  /\ scoreArgs = NoScoreArgs /\ scoreRes = <<>>

NextSimilarBusy ==
  \/ \E data \in BusyDocs : ContactCreate(data)
  \/ \E id \in 1..MaxContacts, stage \in StageInputs, priority \in PriorityInputs :
       LinkUpsert(id, stage, priority)
  \/ SimLoadProject(ProjectId)
  \/ SimRespondImportedOnly
  \/ SimFindLinks
  \/ \E limitQuery \in LimitQueries : SimFindContacts(limitQuery)
  \/ SimResume

SpecSimilarBusy == InitSimilarBusy /\ [][NextSimilarBusy]_vars

(***************************************************************************)
(* checkDuplicate and POST /contacts                                       *)
(***************************************************************************)

\* { $regex: new RegExp(`^${escaped(normalized)}$`, 'i') } on a stored
\* field: the whole stored text equals the pattern without regard to case.
\* The stored text is taken as it is.
anchoredRegexI(stored, normalized) == toLowerCase(stored) = toLowerCase(normalized)

\* Contact.findOne(filter): the first of the stored documents that pass the
\* filter, as a sequence of zero or one document.
findOne(found) == IF found = <<>> THEN <<>> ELSE <<found[1]>>

\* checkDuplicate with a bare-name rule that also fires against stored
\* contacts that have a company.
checkDuplicateAnyCompany(contactData) ==
  LET normalizedName == trim(toLowerCase(contactData.name))
      normalizedEmail == trim(toLowerCase(contactData.email))
      normalizedCompany == trim(toLowerCase(contactData.company))
      duplicateByNameEmail ==
        findOne(SelectSeq(contacts, LAMBDA c :
                  /\ anchoredRegexI(c.name, normalizedName)
                  /\ anchoredRegexI(c.email, normalizedEmail)))
      duplicateByNameCompany ==
        findOne(SelectSeq(contacts, LAMBDA c :
                  /\ anchoredRegexI(c.name, normalizedName)
                  /\ anchoredRegexI(c.company, normalizedCompany)))
      duplicateByName ==
        findOne(SelectSeq(contacts, LAMBDA c :
                  /\ anchoredRegexI(c.name, normalizedName)
                  /\ c.email = <<>>))
  IN  IF normalizedName # <<>> /\ normalizedEmail # <<>> /\ duplicateByNameEmail # <<>>
      THEN [isDuplicate |-> TRUE, existingContact |-> duplicateByNameEmail,
            reason |-> "nameEmail"]
      ELSE IF /\ normalizedName # <<>> /\ normalizedCompany # <<>> /\ normalizedEmail = <<>>
              /\ duplicateByNameCompany # <<>>
      THEN [isDuplicate |-> TRUE, existingContact |-> duplicateByNameCompany,
            reason |-> "nameCompany"]
      ELSE IF /\ normalizedName # <<>> /\ normalizedEmail = <<>> /\ normalizedCompany = <<>>
              /\ duplicateByName # <<>>
      THEN [isDuplicate |-> TRUE, existingContact |-> duplicateByName,
            reason |-> "name"]
      ELSE [isDuplicate |-> FALSE]

checkDuplicate(contactData) ==
  LET normalizedName == trim(toLowerCase(contactData.name))
      normalizedEmail == trim(toLowerCase(contactData.email))
      normalizedCompany == trim(toLowerCase(contactData.company))
      duplicateByNameEmail ==
        findOne(SelectSeq(contacts, LAMBDA c :
                  /\ anchoredRegexI(c.name, normalizedName)
                  /\ anchoredRegexI(c.email, normalizedEmail)))
      duplicateByNameCompany ==
        findOne(SelectSeq(contacts, LAMBDA c :
                  /\ anchoredRegexI(c.name, normalizedName)
                  /\ anchoredRegexI(c.company, normalizedCompany)))
      duplicateByName ==
        findOne(SelectSeq(contacts, LAMBDA c :
                  /\ anchoredRegexI(c.name, normalizedName)
                  /\ c.email = <<>>
                  /\ c.company = <<>>))
  IN  IF normalizedName # <<>> /\ normalizedEmail # <<>> /\ duplicateByNameEmail # <<>>
      THEN [isDuplicate |-> TRUE, existingContact |-> duplicateByNameEmail,
            reason |-> "nameEmail"]
      ELSE IF /\ normalizedName # <<>> /\ normalizedCompany # <<>> /\ normalizedEmail = <<>>
              /\ duplicateByNameCompany # <<>>
      THEN [isDuplicate |-> TRUE, existingContact |-> duplicateByNameCompany,
            reason |-> "nameCompany"]
      ELSE IF /\ normalizedName # <<>> /\ normalizedEmail = <<>> /\ normalizedCompany = <<>>
              /\ duplicateByName # <<>>
      THEN [isDuplicate |-> TRUE, existingContact |-> duplicateByName,
            reason |-> "name"]
      ELSE [isDuplicate |-> FALSE]

\* POST /contacts, up to the end of await checkDuplicate(req.body): the 409,
\* or on to Contact.create.
PostContactCheck(body) ==
  /\ dup.pc \in {"idle", "done"}
  /\ LET duplicateCheck == checkDuplicate(body)
     IN  dup' = IF duplicateCheck.isDuplicate
                THEN [ pc |-> "done", body |-> body, duplicateCheck |-> duplicateCheck,
                       response |-> [ status |-> 409, success |-> FALSE,
                                      error |-> duplicateCheck.reason,
                                      duplicate |-> TRUE ] ]
                ELSE [ pc |-> "create", body |-> body, duplicateCheck |-> duplicateCheck ]
  /\ UNCHANGED <<storeVars, req, scoreArgs, scoreRes, imp, put, listing, imp2>>

\* await Contact.create(req.body): the schema requires a name; the document
\* is stored with its fields as given.
PostContactCreate ==
  /\ dup.pc = "create"
  /\ IF dup.body.name = <<>>
     THEN /\ dup' = [dup EXCEPT !.pc = "done"] @@ [response |-> [status |-> 400, success |-> FALSE]]
          /\ UNCHANGED contacts
     ELSE /\ Len(contacts) < MaxPosted
          /\ contacts' = Append(contacts, NewContactDoc(dup.body, NextContactId))
          /\ dup' = [dup EXCEPT !.pc = "done"] @@ [response |-> [status |-> 201, success |-> TRUE]]
  /\ UNCHANGED <<links, project, req, scoreArgs, scoreRes, imp, put, listing, imp2>>

\* The request bodies: names and emails that differ in case and in
\* surrounding whitespace, with and without a company.
PostBodies ==
  [ name : { <<>>, <<"A", "l">>, <<" ", "a", "l">>, <<"B", "o">> },
    email : { <<>>, <<"a", "@">>, <<"A", "@", " ">> },
    company : { <<>>, <<"C">> } ]

InitDup ==
  /\ contacts = <<>> /\ links = <<>> /\ project = NoProject
  /\ req = IdleReq /\ dup = IdleDup /\ imp = IdleImp /\ put = IdlePut
  /\ listing = IdleListing /\ imp2 = IdleImp
  /\ scoreArgs = NoScoreArgs /\ scoreRes = <<>>

NextDup ==
  \/ \E body \in PostBodies : PostContactCheck(body)
  \/ PostContactCreate

SpecDup == InitDup /\ [][NextDup]_vars

(***************************************************************************)
(* POST /projects/bulk-import: the file and its rows                       *)
(***************************************************************************)

\* Bounds of the import model.
MaxImports == 2
MaxRaceImports == 1
MaxPuts == 1

\* The value of an arithmetic expression with an undefined operand, and the
\* texts the lenient import puts in place of missing values.
NaN == -3
UnknownCompany ==
  <<"U", "n", "k", "n", "o", "w", "n", " ", "C", "o", "m", "p", "a", "n", "y">>
unknownDomain == <<"u", "n", "k", "n", "o", "w", "n", ".", "c", "o", "m">>
contactPrefix == <<"c", "o", "n", "t", "a", "c", "t">>
ContactNamePrefix == <<"C", "o", "n", "t", "a", "c", "t", " ">>

\* `${n}` of a natural number.
DigitChar(d) == CHOOSE c \in Digits : DigitValue(c) = d

RECURSIVE numberToString(_)
numberToString(n) ==
  IF n < 10 THEN <<DigitChar(n)>>
  ELSE numberToString(n \div 10) \o <<DigitChar(n % 10)>>

\* email.split('@')[0] and email.split('@')[1] of an email that includes '@'.
atPositions(email) == { i \in 1..Len(email) : email[i] = "@" }

SetMin(S) == CHOOSE x \in S : \A y \in S : x <= y

splitAt0(email) == SubSeq(email, 1, SetMin(atPositions(email)) - 1)

splitAt1(email) ==
  LET first == SetMin(atPositions(email))
      rest == atPositions(email) \ {first}
  IN  SubSeq(email, first + 1, IF rest = {} THEN Len(email) ELSE SetMin(rest) - 1)

\* /^[^\s@]+@[^\s@]+\.[^\s@]+$/.test(email)
emailRegexTest(email) ==
  /\ \A i \in 1..Len(email) : email[i] # " "
  /\ Cardinality(atPositions(email)) = 1
  /\ LET at == SetMin(atPositions(email))
     IN  /\ at > 1
         /\ \E dot \in (at + 2)..(Len(email) - 1) : email[dot] = "."

\* The strict variant: a row needs a name, an email of the regular form and
\* a company, else it is counted in errors.
strictRowValid(row) ==
  /\ row.name # <<>> /\ row.email # <<>> /\ row.company # <<>>
  /\ emailRegexTest(toLowerCase(trim(row.email)))

strictContact(row) ==
  [ name |-> trim(row.name), email |-> toLowerCase(trim(row.email)),
    company |-> trim(row.company), firstPhone |-> trim(row.phone),
    title |-> trim(row.title) ]

\* The lenient variant: a row with any value at all is taken, with defaults
\* for a missing name, email and company.
hasAnyData(row) == \E f \in DOMAIN row : row[f] # <<>>

lenientContact(row, rowNumber) ==
  [ name |-> IF row.name # <<>> THEN trim(row.name)
             ELSE ContactNamePrefix \o numberToString(rowNumber),
    email |-> IF row.email # <<>> THEN toLowerCase(trim(row.email))
              ELSE contactPrefix \o numberToString(rowNumber) \o <<"@">> \o unknownDomain,
    company |-> IF row.company # <<>> THEN trim(row.company) ELSE UnknownCompany,
    title |-> trim(row.title), firstPhone |-> trim(row.phone),
    industry |-> trim(row.industry) ]

rowNumbers(rows) == [i \in 1..Len(rows) |-> i]

\* const contacts = [] filled by the row handler.
parseContacts(variant, rows) ==
  IF variant = "strict"
  THEN LET valid == SelectSeq(rows, strictRowValid)
       IN  [k \in 1..Len(valid) |-> strictContact(valid[k])]
  ELSE LET taken == SelectSeq(rowNumbers(rows), LAMBDA i : hasAnyData(rows[i]))
       IN  [k \in 1..Len(taken) |-> lenientContact(rows[taken[k]], taken[k])]

\* errors.length: the rows the strict variant refused; the lenient variant
\* never adds to errors.
parseErrors(variant, rows) ==
  IF variant = "strict"
  THEN Len(SelectSeq(rows, LAMBDA row : ~strictRowValid(row)))
  ELSE 0

(***************************************************************************)
(* Duplicate emails inside the file                                        *)
(***************************************************************************)

\* Strict: duplicatesInCSV, the (1-based) places of the contacts whose email
\* repeats that of an earlier contact.
duplicateIndexes(parsed) ==
  SelectSeq(rowNumbers(parsed),
            LAMBDA i : \E j \in 1..(i - 1) : parsed[j].email = parsed[i].email)

strictUniqueAll(parsed) == parsed

strictUnique(parsed) ==
  LET kept == SelectSeq(rowNumbers(parsed),
                        LAMBDA i : \A j \in 1..(i - 1) : parsed[j].email # parsed[i].email)
  IN  [k \in 1..Len(kept) |-> parsed[kept[k]]]

\* Lenient: `${baseEmail}${counter}@${domain}` (index is 0-based).
suffixedEmail(email, index, counter) ==
  IF atPositions(email) # {}
  THEN splitAt0(email) \o numberToString(counter) \o <<"@">> \o splitAt1(email)
  ELSE contactPrefix \o numberToString(index) \o numberToString(counter)
         \o <<"@">> \o unknownDomain

\* The email after one turn of the loop at most.
uniqueEmailOnce(email, index, emailSet) ==
  IF email \notin emailSet THEN email ELSE suffixedEmail(email, index, 1)

\* The email the while loop ends with: the email itself when it is new, else
\* the one with the first counter that is not taken.
uniqueEmail(email, index, emailSet) ==
  IF email \notin emailSet THEN email
  ELSE LET free == { counter \in 1..(Cardinality(emailSet) + 1) :
                       suffixedEmail(email, index, counter) \notin emailSet }
       IN  suffixedEmail(email, index, SetMin(free))

emailsOf(seq) == { seq[k].email : k \in 1..Len(seq) }

RECURSIVE lenientUnique(_, _)
lenientUnique(parsed, done) ==
  IF Len(done) = Len(parsed) THEN done
  ELSE lenientUnique(parsed,
         Append(done, Assign(parsed[Len(done) + 1],
           [email |-> uniqueEmail(parsed[Len(done) + 1].email, Len(done), emailsOf(done))])))

\* let duplicatesInCSV = 0; duplicatesInCSV++ once for each contact whose
\* email had to be changed.
lenientDuplicateCount(parsed) ==
  LET unique == lenientUnique(parsed, <<>>)
  IN  Cardinality({ i \in 1..Len(parsed) : unique[i].email # parsed[i].email })

\* duplicatesInCSV is an array in the strict variant and a number in the
\* lenient one.
duplicatesInCSVOf(variant, parsed) ==
  IF variant = "strict"
  THEN [isArray |-> TRUE, items |-> duplicateIndexes(parsed)]
  ELSE [isArray |-> FALSE, value |-> lenientDuplicateCount(parsed)]

uniqueContactsOf(variant, parsed) ==
  IF variant = "strict" THEN strictUnique(parsed) ELSE lenientUnique(parsed, <<>>)

\* x.length: the length of an array, undefined on a number.
lengthOf(x) == IF x.isArray THEN Len(x.items) ELSE undefined

\* a + b of JavaScript numbers, where either may be undefined.
plus(a, b) == IF a \in {undefined, NaN} \/ b \in {undefined, NaN} THEN NaN ELSE a + b

\* JSON.stringify of a number: NaN is written as null.
jsonNumber(x) == IF x = NaN THEN null ELSE x

(***************************************************************************)
(* POST /projects/bulk-import: the request, one step for each await        *)
(***************************************************************************)

clientError(status) == [status |-> status, success |-> FALSE]
serverError == [status |-> 500, success |-> FALSE]

\* The locals of the handler before the file is read.
importLocals ==
  [ contacts |-> <<>>, errors |-> 0,
    duplicatesInCSV |-> [isArray |-> TRUE, items |-> <<>>, value |-> 0],
    uniqueContacts |-> <<>>, newContacts |-> <<>>, existingContacts |-> <<>>,
    contactsToInsert |-> <<>>, createdContacts |-> <<>>,
    existingProjectContactSet |-> {}, reads |-> <<>>,
    projectContacts |-> <<>>, writeErrors |-> 0, failed |-> {},
    duplicateEmails |-> {} ]

\* What is remembered of the request before this one.
prevOf(r) ==
  IF r.pc = "done"
  THEN << [ variant |-> r.variant, file |-> r.file, before |-> r.before,
            status |-> r.response.status ] >>
  ELSE <<>>

\* From the start of the handler to await Contact.find({$or: ...}): the
\* checks of the upload, the rows, and the duplicates inside the file.
importStarted(r, variant, file, projectId, store) ==
  LET base == [ n |-> r.n + 1, variant |-> variant, file |-> file,
                prev |-> prevOf(r), before |-> store ] @@ importLocals
      ended(status) == [pc |-> "done", response |-> clientError(status)] @@ base
  IN  IF file = <<>> THEN ended(400)
      ELSE IF projectId = undefined THEN ended(400)
      ELSE IF projectId # ProjectId THEN ended(404)
      ELSE IF parseContacts(variant, file[1]) = <<>> THEN ended(400)
      ELSE [ pc |-> "lookup",
             contacts |-> parseContacts(variant, file[1]),
             errors |-> parseErrors(variant, file[1]),
             duplicatesInCSV |->
               duplicatesInCSVOf(variant, parseContacts(variant, file[1])) @@
               importLocals.duplicatesInCSV,
             uniqueContacts |-> uniqueContactsOf(variant, parseContacts(variant, file[1])) ]
           @@ base

\* Contact.find({$or: [{email: /^...$/i}, ...]}): the stored contacts whose
\* email equals one of the batch without regard to case.
existingEmails(emailsToCheck, contactStore) ==
  SelectSeq(contactStore,
            LAMBDA c : \E email \in emailsToCheck : anchoredRegexI(c.email, email))

lowerEmailsOf(seq) == { toLowerCase(seq[k].email) : k \in 1..Len(seq) }

\* A map in which no email is found.
existingEmailMapGetNone(found, emailLower) == undefined

\* existingEmailMap.get(emailLower): the _id of the first found contact of
\* that lower-cased email, undefined when there is none.
existingEmailMapGet(found, emailLower) ==
  LET hits == SelectSeq(found, LAMBDA c : toLowerCase(c.email) = emailLower)
  IN  IF hits = <<>> THEN undefined ELSE hits[1]._id

withContactId(contact, found) ==
  Assign(contact, [contactId |-> existingEmailMapGet(found, toLowerCase(contact.email))])

\* uniqueContacts.forEach: a contact whose lower-cased email was seen is
\* passed over; the others go to existingContacts or to newContacts.
firstOfEmail(unique, i) ==
  \A j \in 1..(i - 1) : toLowerCase(unique[j].email) # toLowerCase(unique[i].email)

processed(unique) ==
  LET kept == SelectSeq(rowNumbers(unique), LAMBDA i : firstOfEmail(unique, i))
  IN  [k \in 1..Len(kept) |-> unique[kept[k]]]

isExisting(contact, found) ==
  existingEmailMapGet(found, toLowerCase(contact.email)) # undefined

existingContactsOf(unique, found) ==
  LET matched == SelectSeq(processed(unique), LAMBDA c : isExisting(c, found))
  IN  [k \in 1..Len(matched) |-> withContactId(matched[k], found)]

newContactsOf(unique, found) ==
  SelectSeq(processed(unique), LAMBDA c : ~isExisting(c, found))

importLookedUp(r, contactStore) ==
  LET found == existingEmails(lowerEmailsOf(r.uniqueContacts), contactStore)
  IN  [r EXCEPT
         !.existingContacts = existingContactsOf(r.uniqueContacts, found),
         !.newContacts = newContactsOf(r.uniqueContacts, found),
         !.pc = IF newContactsOf(r.uniqueContacts, found) = <<>>
                THEN "findLinks" ELSE "recheck"]

\* Contact.find({email: {$in: emailsToInsert}}): the stored contacts whose
\* email is, letter for letter, one of the new contacts' emails.
existingByEmail(newContacts, contactStore) ==
  SelectSeq(contactStore, LAMBDA c : c.email \in emailsOf(newContacts))

contactsToInsertOf(newContacts, found) ==
  SelectSeq(newContacts, LAMBDA c : toLowerCase(c.email) \notin lowerEmailsOf(found))

duplicateEmailsOf(newContacts, found) ==
  LET dups == SelectSeq(newContacts, LAMBDA c : toLowerCase(c.email) \in lowerEmailsOf(found))
  IN  [k \in 1..Len(dups) |-> withContactId(dups[k], found)]

importRechecked(r, contactStore) ==
  LET found == existingByEmail(r.newContacts, contactStore)
  IN  [r EXCEPT
         !.existingContacts = @ \o duplicateEmailsOf(r.newContacts, found),
         !.contactsToInsert = contactsToInsertOf(r.newContacts, found),
         !.pc = IF contactsToInsertOf(r.newContacts, found) = <<>>
                THEN "findLinks" ELSE "insert"]

\* Contact.insertMany(docs, {ordered: false}): a document without a name
\* fails the schema's validation and is left out without an error; a
\* document in `refused` is one the store rejects for a reason that is not a
\* duplicate key. The others are stored.
storable(docs, refused) ==
  SelectSeq(rowNumbers(docs), LAMBDA i : docs[i].name # <<>> /\ i \notin refused)

insertedContacts(docs, refused, contactStore) ==
  [k \in 1..Len(storable(docs, refused)) |->
     NewContactDoc(docs[storable(docs, refused)[k]], Len(contactStore) + k)]

idsOf(docs) == [k \in 1..Len(docs) |-> docs[k]._id]

\* createdContacts is the result of insertMany, or Object.values(insertedIds)
\* of the error that has writeErrors; no write error is a duplicate key (the
\* Contact schema has no unique index), so nothing joins existingContacts.
importInserted(r, refused, contactStore) ==
  [r EXCEPT
     !.createdContacts = idsOf(insertedContacts(r.contactsToInsert, refused, contactStore)),
     !.failed = IF refused = {} THEN @ ELSE @ \cup {"insert"},
     !.pc = "findLinks"]

\* Contact.insertMany on a database whose email index is unique (the schema
\* declares a plain one): the documents whose email is stored are rejected
\* with code 11000, the others are stored.
duplicateKeyRows(docs, contactStore) ==
  { i \in 1..Len(docs) : docs[i].email \in emailsOf(contactStore) }

\* catch (insertError) with writeErrors: createdContacts from insertedIds,
\* duplicateEmails from the op of each error of code 11000.
importInsertRejected(r, contactStore) ==
  [r EXCEPT
     !.createdContacts =
       idsOf(insertedContacts(r.contactsToInsert,
                              duplicateKeyRows(r.contactsToInsert, contactStore),
                              contactStore)),
     !.duplicateEmails =
       { r.contactsToInsert[i].email :
           i \in duplicateKeyRows(r.contactsToInsert, contactStore) },
     !.failed = @ \cup {"duplicateKey"},
     !.pc = "refind"]

\* A lookup that finds none of the rejected emails.
existingDupsNone(duplicateEmails, contactStore) == <<>>

\* Contact.find({email: {$in: duplicateEmails}})
existingDups(duplicateEmails, contactStore) ==
  SelectSeq(contactStore, LAMBDA c : c.email \in duplicateEmails)

\* existingDups.forEach: the first new contact of that email, if any, joins
\* existingContacts with the stored contact's id.
reclassified(newContacts, found) ==
  LET dupContact(existing) ==
        SelectSeq(newContacts,
                  LAMBDA c : toLowerCase(c.email) = toLowerCase(existing.email))
      withDup == SelectSeq(found, LAMBDA existing : dupContact(existing) # <<>>)
  IN  [k \in 1..Len(withDup) |->
         Assign(dupContact(withDup[k])[1], [contactId |-> withDup[k]._id])]

importRefound(r, contactStore) ==
  [r EXCEPT
     !.existingContacts =
       @ \o reclassified(r.newContacts, existingDups(r.duplicateEmails, contactStore)),
     !.pc = "findLinks"]

\* allContactIds: the created contacts, then the existing ones.
allContactIds(r) ==
  r.createdContacts \o [k \in 1..Len(r.existingContacts) |-> r.existingContacts[k].contactId]

\* ProjectContact.find({projectId, contactId: {$in: uniqueContactIds}})
existingProjectContactSetOf(r, linkStore) ==
  { linkStore[k].contactId : k \in 1..Len(linkStore) }
    \cap { allContactIds(r)[k] : k \in 1..Len(allContactIds(r)) }

importFoundLinks(r, linkStore) ==
  [r EXCEPT
     !.existingProjectContactSet = existingProjectContactSetOf(r, linkStore),
     !.pc = IF r.existingContacts = <<>> THEN "link" ELSE "updateRead"]

\* Contact.findById(id), as a sequence of zero or one document.
findById(contactStore, id) == findOne(SelectSeq(contactStore, LAMBDA c : c._id = id))

importReadExisting(r, contactStore) ==
  [r EXCEPT
     !.reads = [k \in 1..Len(r.existingContacts) |->
                  findById(contactStore, r.existingContacts[k].contactId)],
     !.pc = "updateWrite"]

\* The attributes the update block has a statement for.
updatableFields(variant) ==
  IF variant = "strict"
  THEN {"name", "company", "firstPhone", "title"}
  ELSE {"name", "company", "title", "firstPhone", "industry"}

\* updateData without the test of the stored value.
updateDataOverwrite(variant, contact, existingContact) ==
  { f \in updatableFields(variant) : contact[f] # <<>> /\ trim(contact[f]) # <<>> }

\* Object.keys(updateData): contact[f] && contact[f].trim() !== '' &&
\* (!existingContact[f] || existingContact[f].trim() === '')
updateData(variant, contact, existingContact) ==
  { f \in updatableFields(variant) :
      /\ contact[f] # <<>> /\ trim(contact[f]) # <<>>
      /\ (existingContact[f] = <<>> \/ trim(existingContact[f]) = <<>>) }

\* Contact.findByIdAndUpdate(id, updateData): sets the given fields only.
findByIdAndUpdate(contactStore, id, contact, fields) ==
  [i \in 1..Len(contactStore) |->
     IF contactStore[i]._id = id /\ fields # {}
     THEN [f \in DOMAIN contactStore[i] |->
             IF f \in fields THEN contact[f] ELSE contactStore[i][f]]
     ELSE contactStore[i]]

RECURSIVE updatedContacts(_, _, _)
updatedContacts(contactStore, r, k) ==
  IF k > Len(r.existingContacts) THEN contactStore
  ELSE updatedContacts(
         IF r.reads[k] = <<>> THEN contactStore
         ELSE findByIdAndUpdate(contactStore, r.existingContacts[k].contactId,
                r.existingContacts[k],
                updateData(r.variant, r.existingContacts[k], r.reads[k][1])),
         r, k + 1)

\* projectContacts: a link for every id that had none when the links were
\* looked up; `skipped` counts the others.
projectContactsOf(r) ==
  SelectSeq(allContactIds(r), LAMBDA id : id \notin r.existingProjectContactSet)

skippedAlreadyLinked(r) ==
  Len(SelectSeq(allContactIds(r), LAMBDA id : id \in r.existingProjectContactSet))

\* The unique index {projectId: 1, contactId: 1} over the project's links.
duplicateKeyNever(linkStore, contactId) == FALSE

duplicateKey(linkStore, contactId) ==
  \E k \in 1..Len(linkStore) : linkStore[k].contactId = contactId

nextLinkId(linkStore) ==
  IF linkStore = <<>> THEN 1
  ELSE SetMax({ linkStore[k]._id : k \in 1..Len(linkStore) }) + 1

newProjectContact(linkStore, contactId, stage, priority) ==
  [ _id |-> nextLinkId(linkStore), contactId |-> contactId,
    stage |-> IF stage = "" THEN "New" ELSE stage,
    assignedTo |-> "",
    priority |-> IF priority = "" THEN "Medium" ELSE priority ]

\* ProjectContact.insertMany(docs, {ordered: false}): every document is
\* tried in turn; one whose pair has a link is rejected with a duplicate key
\* (code 11000), one in `refused` is rejected for another reason.
RECURSIVE insertManyLinks(_, _, _, _)
insertManyLinks(linkStore, ids, refused, k) ==
  IF k > Len(ids) THEN linkStore
  ELSE insertManyLinks(
         IF k \in refused \/ duplicateKey(linkStore, ids[k]) THEN linkStore
         ELSE Append(linkStore, newProjectContact(linkStore, ids[k], "", "")),
         ids, refused, k + 1)

\* writeErrors.filter(err => err.code === 11000): the documents, not
\* refused otherwise, whose pair had a link when their turn came.
duplicateErrors(linkStore, ids, refused) ==
  SelectSeq(rowNumbers(ids),
            LAMBDA k : /\ k \notin refused
                       /\ \/ duplicateKey(linkStore, ids[k])
                          \/ \E j \in 1..(k - 1) : j \notin refused /\ ids[j] = ids[k])

\* projectContactsCreated after a linkError with writeErrors.
createdAttempted(projectContacts, writeErrors) == Len(projectContacts)

createdAfterError(projectContacts, writeErrors) == Len(projectContacts) - writeErrors

\* From the end of await ProjectContact.insertMany to res.json: the counts
\* and the response.
projectContactsCreatedOf(r, linkStore, refused) ==
  IF duplicateErrors(linkStore, projectContactsOf(r), refused) = <<>> /\ refused = {}
  THEN Len(projectContactsOf(r))
  ELSE createdAfterError(projectContactsOf(r),
         Len(duplicateErrors(linkStore, projectContactsOf(r), refused)) + Cardinality(refused))

skippedOf(r, linkStore, refused) ==
  skippedAlreadyLinked(r) + Len(duplicateErrors(linkStore, projectContactsOf(r), refused))

responseData(r, projectContactsCreated, skipped) ==
  [ imported |-> projectContactsCreated,
    skipped |-> jsonNumber(plus(skipped, lengthOf(r.duplicatesInCSV))),
    errors |-> r.errors,
    total |-> Len(r.contacts),
    alreadyInProject |-> skipped,
    newContactsInDatabank |-> Len(r.createdContacts),
    existingContactsInDatabank |-> Len(r.existingContacts),
    projectContactsCreated |-> projectContactsCreated ]

\* The answer of a rejected request in place of the tally.
importResponseRejected(r, projectContactsCreated, skipped) == clientError(400)

\* res.json leaves out a property whose value is undefined.
importResponse(r, projectContactsCreated, skipped) ==
  [ status |-> 200, success |-> TRUE,
    data |-> IF lengthOf(r.duplicatesInCSV) = undefined
             THEN responseData(r, projectContactsCreated, skipped)
             ELSE [duplicatesInCSV |-> lengthOf(r.duplicatesInCSV)]
                    @@ responseData(r, projectContactsCreated, skipped) ]

importLinked(r, linkStore, refused) ==
  [ pc |-> "done",
    response |-> importResponse(r, projectContactsCreatedOf(r, linkStore, refused),
                                skippedOf(r, linkStore, refused)) ]
  @@ [r EXCEPT
        !.projectContacts = projectContactsOf(r),
        !.writeErrors = Len(duplicateErrors(linkStore, projectContactsOf(r), refused))
                          + Cardinality(refused),
        !.failed = IF refused = {} THEN @ ELSE @ \cup {"link"}]

\* throw insertError / throw linkError, caught by the handler's catch.
importThrown(r, phase) ==
  [pc |-> "done", response |-> serverError] @@ [r EXCEPT !.failed = @ \cup {phase}]

ImpStart(variant, file, projectId) ==
  /\ imp.pc \in {"idle", "done"}
  /\ imp.n < MaxImports
  /\ imp' = importStarted(imp, variant, file, projectId,
                          [contacts |-> contacts, links |-> links])
  /\ UNCHANGED <<storeVars, req, scoreArgs, scoreRes, dup, put, listing, imp2>>

\* The same start with a file that cannot be read: XLSX.read throws inside
\* the try of the Excel branch (answered 400); the CSV stream emits 'error',
\* the promise rejects and the handler's catch answers 500.
importUnparseable(r, variant, isExcel, projectId, store) ==
  LET base == [ n |-> r.n + 1, variant |-> variant, file |-> << <<>> >>,
                prev |-> prevOf(r), before |-> store ] @@ importLocals
      ended(response) == [pc |-> "done", response |-> response] @@ base
  IN  IF projectId = undefined THEN ended(clientError(400))
      ELSE IF projectId # ProjectId THEN ended(clientError(404))
      ELSE IF isExcel THEN ended(clientError(400))
      ELSE ended(serverError)

ImpStartUnparseable(variant, isExcel, projectId) ==
  /\ imp.pc \in {"idle", "done"}
  /\ imp.n < MaxImports
  /\ imp' = importUnparseable(imp, variant, isExcel, projectId,
                              [contacts |-> contacts, links |-> links])
  /\ UNCHANGED <<storeVars, req, scoreArgs, scoreRes, dup, put, listing, imp2>>

ImpLookup ==
  /\ imp.pc = "lookup"
  /\ imp' = importLookedUp(imp, contacts)
  /\ UNCHANGED <<storeVars, req, scoreArgs, scoreRes, dup, put, listing, imp2>>

ImpRecheck ==
  /\ imp.pc = "recheck"
  /\ imp' = importRechecked(imp, contacts)
  /\ UNCHANGED <<storeVars, req, scoreArgs, scoreRes, dup, put, listing, imp2>>

ImpInsert ==
  /\ imp.pc = "insert"
  /\ contacts' = contacts \o insertedContacts(imp.contactsToInsert, {}, contacts)
  /\ imp' = importInserted(imp, {}, contacts)
  /\ UNCHANGED <<links, project, req, scoreArgs, scoreRes, dup, put, listing, imp2>>

ImpFindLinks ==
  /\ imp.pc = "findLinks"
  /\ imp' = importFoundLinks(imp, links)
  /\ UNCHANGED <<storeVars, req, scoreArgs, scoreRes, dup, put, listing, imp2>>

ImpUpdateRead ==
  /\ imp.pc = "updateRead"
  /\ imp' = importReadExisting(imp, contacts)
  /\ UNCHANGED <<storeVars, req, scoreArgs, scoreRes, dup, put, listing, imp2>>

ImpUpdateWrite ==
  /\ imp.pc = "updateWrite"
  /\ contacts' = updatedContacts(contacts, imp, 1)
  /\ imp' = [imp EXCEPT !.pc = "link"]
  /\ UNCHANGED <<links, project, req, scoreArgs, scoreRes, dup, put, listing, imp2>>

ImpLink ==
  /\ imp.pc = "link"
  /\ links' = insertManyLinks(links, projectContactsOf(imp), {}, 1)
  /\ imp' = importLinked(imp, links, {})
  /\ UNCHANGED <<contacts, project, req, scoreArgs, scoreRes, dup, put, listing, imp2>>

\* The store fails a write for a reason that is not a duplicate key.
\* Contact.insertMany: the error has no writeErrors (the store cannot be
\* reached) and is thrown on, or it has a writeError for one document.
ImpInsertUnavailable ==
  /\ imp.pc = "insert"
  /\ imp' = importThrown(imp, "insert")
  /\ UNCHANGED <<storeVars, req, scoreArgs, scoreRes, dup, put, listing, imp2>>

ImpInsertRefused(i) ==
  /\ imp.pc = "insert"
  /\ i \in 1..Len(imp.contactsToInsert)
  /\ contacts' = contacts \o insertedContacts(imp.contactsToInsert, {i}, contacts)
  /\ imp' = importInserted(imp, {i}, contacts)
  /\ UNCHANGED <<links, project, req, scoreArgs, scoreRes, dup, put, listing, imp2>>

\* Contact.findById or Contact.findByIdAndUpdate throws: the error is
\* caught inside the update of that contact and logged. (All the updates of
\* the request fail here.)
ImpUpdateFails ==
  /\ imp.pc \in {"updateRead", "updateWrite"}
  /\ imp' = [imp EXCEPT !.pc = "link", !.failed = @ \cup {"update"}]
  /\ UNCHANGED <<storeVars, req, scoreArgs, scoreRes, dup, put, listing, imp2>>

\* ProjectContact.insertMany: an error without code 11000 and without
\* writeErrors is thrown on; one with writeErrors is counted.
ImpLinkUnavailable ==
  /\ imp.pc = "link"
  /\ projectContactsOf(imp) # <<>>
  /\ imp' = importThrown(imp, "link")
  /\ UNCHANGED <<storeVars, req, scoreArgs, scoreRes, dup, put, listing, imp2>>

ImpLinkRefused(k) ==
  /\ imp.pc = "link"
  /\ k \in 1..Len(projectContactsOf(imp))
  /\ links' = insertManyLinks(links, projectContactsOf(imp), {k}, 1)
  /\ imp' = importLinked(imp, links, {k})
  /\ UNCHANGED <<contacts, project, req, scoreArgs, scoreRes, dup, put, listing, imp2>>

\* Contact.insertMany rejects documents with a duplicate key: the accepted
\* ones are stored and the handler goes on to look the rejected emails up.
ImpInsertDuplicateKey ==
  /\ imp.pc = "insert"
  /\ duplicateKeyRows(imp.contactsToInsert, contacts) # {}
  /\ contacts' = contacts \o insertedContacts(imp.contactsToInsert,
                    duplicateKeyRows(imp.contactsToInsert, contacts), contacts)
  /\ imp' = importInsertRejected(imp, contacts)
  /\ UNCHANGED <<links, project, req, scoreArgs, scoreRes, dup, put, listing, imp2>>

ImpRefind ==
  /\ imp.pc = "refind"
  /\ imp' = importRefound(imp, contacts)
  /\ UNCHANGED <<storeVars, req, scoreArgs, scoreRes, dup, put, listing, imp2>>

(***************************************************************************)
(* PUT /:projectId/project-contacts/:contactId, one step for each await,   *)
(* and DELETE /:projectId/project-contacts                                 *)
(***************************************************************************)

\* await ProjectContact.findOne({projectId, contactId})
PutFind(contactId, stage, priority) ==
  /\ put.pc \in {"idle", "done"}
  /\ put.n < MaxPuts
  /\ put' = [ pc |-> "save", n |-> put.n + 1, contactId |-> contactId,
              stage |-> stage, priority |-> priority,
              projectContact |->
                findOne(SelectSeq(links, LAMBDA l : l.contactId = contactId)) ]
  /\ UNCHANGED <<storeVars, req, scoreArgs, scoreRes, dup, imp, listing, imp2>>

\* await newProjectContact.save() of a new link: the unique index rejects
\* the pair when it has got a link since findOne, and the handler's catch
\* answers 400. await projectContact.save() of a found link: its changed
\* fields are written to the stored link, if that is still there.
PutSave ==
  /\ put.pc = "save"
  /\ IF put.projectContact = <<>>
     THEN IF duplicateKey(links, put.contactId)
          THEN /\ put' = [pc |-> "done", response |-> clientError(400)] @@ put
               /\ UNCHANGED links
          ELSE /\ links' = Append(links,
                     newProjectContact(links, put.contactId, put.stage, put.priority))
               /\ put' = [pc |-> "done", response |-> [status |-> 200, success |-> TRUE]] @@ put
     ELSE /\ links' = [k \in 1..Len(links) |->
                         IF /\ links[k]._id = put.projectContact[1]._id
                            /\ links[k].contactId = put.contactId
                         THEN [links[k] EXCEPT
                                 !.stage = IF put.stage # "" THEN put.stage ELSE @,
                                 !.priority = IF put.priority # "" THEN put.priority ELSE @]
                         ELSE links[k]]
          /\ put' = [pc |-> "done", response |-> [status |-> 200, success |-> TRUE]] @@ put
  /\ UNCHANGED <<contacts, project, req, scoreArgs, scoreRes, dup, imp, listing, imp2>>

\* ProjectContact.deleteMany({projectId, contactId: {$in: contactObjectIds}})
LinkRemove(contactIds) ==
  /\ contactIds # {}
  /\ links' = SelectSeq(links, LAMBDA l : l.contactId \notin contactIds)
  /\ UNCHANGED <<contacts, project, req, scoreArgs, scoreRes, dup, imp, put, listing, imp2>>

(***************************************************************************)
(* The imports that run alone, and the imports that run among link         *)
(* upserts, link removals and failures of the store                        *)
(***************************************************************************)

Al == <<"A", "l">>
Bo == <<"B", "o">>
EmailA == <<"a", "@", "b", ".", "c">>
EmailAUpper == <<"A", "@", "b", ".", "c", " ">>
EmailB == <<"b", "@", "b", ".", "c">>
EmailA1 == <<"a", "1", "@", "b", ".", "c">>

\* A row of the file, by its column names; a column that is missing or
\* empty is the empty text.
Row(name, email, company, title, industry) ==
  [ name |-> name, email |-> email, company |-> company, title |-> title,
    phone |-> <<>>, industry |-> industry ]

ImportRowSets ==
  { <<>>,
    << Row(Al, EmailA, <<"C">>, <<>>, <<>>) >>,
    << Row(Al, EmailAUpper, <<"C">>, CTO, SaaS) >>,
    << Row(Al, EmailA, <<"C">>, <<>>, <<>>), Row(Al, EmailAUpper, <<"C">>, CTO, SaaS) >>,
    << Row(Al, EmailA, <<"C">>, <<>>, <<>>), Row(Bo, EmailB, <<>>, CTO, <<>>) >>,
    << Row(<<" ">>, EmailB, <<"C">>, <<>>, <<>>) >>,
    << Row(Bo, <<>>, <<>>, <<>>, <<>>), Row(Bo, <<>>, <<>>, <<>>, <<>>) >>,
    << Row(<<>>, <<>>, <<>>, <<>>, <<>>), Row(Al, EmailA, <<"C">>, CTO, <<>>) >>,
    << Row(Al, EmailA, <<"C">>, <<>>, <<>>), Row(Al, EmailA, <<"C">>, CTO, <<>>),
       Row(Bo, EmailA1, <<"C">>, <<>>, <<>>), Row(Al, EmailAUpper, <<"C">>, <<>>, <<>>) >> }

\* req.file: none, or a file of rows.
ImportFiles == {<<>>} \cup { <<rows>> : rows \in ImportRowSets }

ImportProjectIds == {ProjectId, ProjectId + 1, undefined}
Variants == {"strict", "lenient"}

\* The Contact store the imports start from: empty, or holding one contact
\* created by POST /contacts (stored as posted).
ImportStores ==
  { <<>>,
    << NewContactDoc([name |-> Al, email |-> <<"A", "@", "b", ".", "c">>,
                      title |-> <<" ">>], 1) >>,
    << NewContactDoc([name |-> Bo, email |-> EmailA, company |-> <<"B">>,
                      title |-> <<"v">>], 1) >> }

InitImport ==
  /\ contacts \in ImportStores /\ links = <<>> /\ project = NoProject
  /\ req = IdleReq /\ dup = IdleDup /\ imp = IdleImp /\ put = IdlePut
  /\ listing = IdleListing /\ imp2 = IdleImp
  /\ scoreArgs = NoScoreArgs /\ scoreRes = <<>>

NextImport ==
  \/ \E variant \in Variants, file \in ImportFiles, projectId \in ImportProjectIds :
       ImpStart(variant, file, projectId)
  \/ \E variant \in Variants, isExcel \in BOOLEAN, projectId \in ImportProjectIds :
       ImpStartUnparseable(variant, isExcel, projectId)
  \/ ImpLookup
  \/ ImpRecheck
  \/ ImpInsert
  \/ ImpFindLinks
  \/ ImpUpdateRead
  \/ ImpUpdateWrite
  \/ ImpLink

SpecImport == InitImport /\ [][NextImport]_vars

RaceFiles ==
  { << << Row(Al, EmailA, <<"C">>, <<>>, <<>>), Row(Bo, EmailB, <<"C">>, CTO, <<>>) >> >> }

RaceContactIds == {1, 2}

\* The places of the documents of an insertMany that the store may refuse.
RaceRowNumbers == {1, 2}

\* The Contact store the racing requests start from.
RaceStores ==
  { <<>>, << NewContactDoc([name |-> Al, email |-> EmailA, title |-> <<" ">>], 1) >> }

InitRace ==
  /\ contacts \in RaceStores /\ links = <<>> /\ project = NoProject
  /\ req = IdleReq /\ dup = IdleDup /\ imp = IdleImp /\ put = IdlePut
  /\ listing = IdleListing /\ imp2 = IdleImp
  /\ scoreArgs = NoScoreArgs /\ scoreRes = <<>>

NextRace ==
  \/ /\ imp.n < MaxRaceImports
     /\ \E variant \in Variants, file \in RaceFiles : ImpStart(variant, file, ProjectId)
  \/ ImpLookup
  \/ ImpRecheck
  \/ ImpInsert
  \/ ImpFindLinks
  \/ ImpUpdateRead
  \/ ImpUpdateWrite
  \/ ImpLink
  \/ ImpInsertUnavailable
  \/ \E i \in RaceRowNumbers : ImpInsertRefused(i)
  \/ ImpUpdateFails
  \/ ImpLinkUnavailable
  \/ \E k \in RaceRowNumbers : ImpLinkRefused(k)
  \/ \E contactId \in RaceContactIds, stage \in StageInputs, priority \in PriorityInputs :
       PutFind(contactId, stage, priority)
  \/ PutSave
  \/ \E contactIds \in (SUBSET RaceContactIds) \ {{}} : LinkRemove(contactIds)

SpecRace == InitRace /\ [][NextRace]_vars

(***************************************************************************)
(* GET /contacts and GET /contacts/companies: the has / does-not-have      *)
(* filters                                                                 *)
(***************************************************************************)

\* A stored value of a document: the field is missing, is null, or holds a
\* text.
Missing == [kind |-> "missing", text |-> <<>>]
Null == [kind |-> "null", text |-> <<>>]
Str(text) == [kind |-> "string", text |-> text]

\* { field: { $exists: true } }
exists(v) == v.kind # "missing"

\* { field: x } for x null or a text: null matches a missing field too.
eq(v, x) == IF x = Null THEN v.kind \in {"missing", "null"} ELSE v = x

\* { field: { $ne: x } }
ne(v, x) == ~eq(v, x)

\* /^\s*$/
onlyWhitespace(text) == \A i \in 1..Len(text) : text[i] = " "

\* /^-\s*$/
dashThenWhitespace(text) ==
  text # <<>> /\ text[1] = "-" /\ onlyWhitespace(Tail(text))

\* [^\s@]
plainChar(c) == c # " " /\ c # "@"

\* /^[^\s@]+@[^\s@]+\.[^\s@]+/ : some prefix of the text is of that form.
validEmailPrefix(text) ==
  \E at \in 2..Len(text), dot \in 3..Len(text) :
    /\ text[at] = "@" /\ text[dot] = "." /\ dot >= at + 2 /\ dot < Len(text)
    /\ \A i \in (1..(at - 1)) \cup ((at + 1)..(dot + 1)) : plainChar(text[i])

\* /^[^\s@]+@[^\s@]+\.[^\s@]+$/ : the whole text is of that form.
validEmailRegex(text) ==
  \E at \in 2..Len(text), dot \in 3..Len(text) :
    /\ text[at] = "@" /\ text[dot] = "." /\ dot >= at + 2 /\ dot < Len(text)
    /\ \A i \in (1..Len(text)) \ {at} : plainChar(text[i])

\* a\s*b
withGap(a, b, text) ==
  /\ Len(text) >= Len(a) + Len(b)
  /\ SubSeq(text, 1, Len(a)) = a
  /\ SubSeq(text, Len(text) - Len(b) + 1, Len(text)) = b
  /\ onlyWhitespace(SubSeq(text, Len(a) + 1, Len(text) - Len(b)))

\* /^(no\s*email|n\/a|na|none|not\s*available|no\s*data|-)$/i
placeholderText(text) ==
  LET t == toLowerCase(text)
  IN  \/ withGap(<<"n", "o">>, <<"e", "m", "a", "i", "l">>, t)
      \/ t = <<"n", "/", "a">>
      \/ t = <<"n", "a">>
      \/ t = <<"n", "o", "n", "e">>
      \/ withGap(<<"n", "o", "t">>, <<"a", "v", "a", "i", "l", "a", "b", "l", "e">>, t)
      \/ withGap(<<"n", "o">>, <<"d", "a", "t", "a">>, t)
      \/ t = <<"-">>

\* { field: { $regex: re } } matches a text only; $not matches the rest.
regex(v, matched) == v.kind = "string" /\ matched

\* linkedInFilter and noLinkedInFilter (the same in both routes).
hasUrl(v) ==
  /\ exists(v) /\ ne(v, Str(<<>>)) /\ ne(v, Null)
  /\ ~regex(v, onlyWhitespace(v.text))

hasNoUrl(v) ==
  \/ ~exists(v) \/ eq(v, Null) \/ eq(v, Str(<<>>))
  \/ regex(v, onlyWhitespace(v.text))

linkedInFilter(doc) == hasUrl(doc.personLinkedinUrl) \/ hasUrl(doc.companyLinkedinUrl)

noLinkedInFilter(doc) == hasNoUrl(doc.personLinkedinUrl) /\ hasNoUrl(doc.companyLinkedinUrl)

\* emailFilter: GET / tests the form of a prefix of the email, GET
\* /companies the form of the whole email (validEmailRegex).
emailFilter(route, v) ==
  /\ exists(v) /\ ne(v, Null) /\ ne(v, Str(<<>>)) /\ ne(v, Str(<<"-">>))
  /\ ~regex(v, onlyWhitespace(v.text))
  /\ (route = "contacts" => ~regex(v, dashThenWhitespace(v.text)))
  /\ IF route = "contacts" THEN regex(v, validEmailPrefix(v.text))
     ELSE regex(v, validEmailRegex(v.text))
  /\ ~regex(v, placeholderText(v.text))

\* noEmailFilter: both routes test the form of a prefix.
noEmailFilter(route, v) ==
  \/ ~exists(v) \/ eq(v, Null) \/ eq(v, Str(<<>>)) \/ eq(v, Str(<<"-">>))
  \/ regex(v, onlyWhitespace(v.text))
  \/ (route = "contacts" /\ regex(v, dashThenWhitespace(v.text)))
  \/ ~regex(v, validEmailPrefix(v.text))
  \/ regex(v, placeholderText(v.text))

\* phoneConditions and noPhoneFilter (the same in both routes).
phoneConditions(v) ==
  /\ exists(v) /\ ne(v, Null) /\ ne(v, Str(<<>>))
  /\ ~regex(v, onlyWhitespace(v.text))

noPhoneFilter(v) ==
  \/ ~exists(v) \/ eq(v, Null) \/ eq(v, Str(<<>>))
  \/ regex(v, onlyWhitespace(v.text))

\* The filter the handler has built when it queries the store: GET
\* /companies starts from { company: { $exists: true, $ne: null } } (the
\* second $ne of the object literal replaces the first), GET / from {}.
matchesFilter(route, query, doc) ==
  /\ route = "companies" => exists(doc.company) /\ ne(doc.company, Null)
  /\ query.filterHasLinkedIn = "yes" => linkedInFilter(doc)
  /\ query.filterHasLinkedIn = "no" => noLinkedInFilter(doc)
  /\ query.filterHasEmail = "yes" => emailFilter(route, doc.email)
  /\ query.filterHasEmail = "no" => noEmailFilter(route, doc.email)
  /\ query.filterHasPhone = "yes" => phoneConditions(doc.firstPhone)
  /\ query.filterHasPhone = "no" => noPhoneFilter(doc.firstPhone)

\* sort({ name: 1 }): the order of two texts by the codes of their
\* characters, the shorter of a text and its extension first.
charCode(c) ==
  CASE c = " " -> 32
    [] c = "A" -> 65
    [] c = "B" -> 66
    [] c = "C" -> 67
    [] OTHER -> 255

RECURSIVE textLeq(_, _)
textLeq(a, b) ==
  IF a = <<>> THEN TRUE
  ELSE IF b = <<>> THEN FALSE
  ELSE IF charCode(Head(a)) # charCode(Head(b)) THEN charCode(Head(a)) < charCode(Head(b))
  ELSE textLeq(Tail(a), Tail(b))

RECURSIVE sortByName(_)
sortByName(docs) ==
  IF docs = <<>> THEN <<>>
  ELSE LET last == docs[Len(docs)]
           sorted == sortByName(SubSeq(docs, 1, Len(docs) - 1))
       IN  SelectSeq(sorted, LAMBDA d : textLeq(d.name, last.name)) \o <<last>>
             \o SelectSeq(sorted, LAMBDA d : ~textLeq(d.name, last.name))

\* The request before this one.
prevListing(r) ==
  IF r.pc = "done"
  THEN << [route |-> r.route, query |-> r.query, matched |-> r.matched] >>
  ELSE <<>>

\* Contact.find(filter).sort({ name: 1 }).skip(skip).limit(limitNum) with
\* the default page 1 and limit 50, and Contact.countDocuments(filter).
contactsResponse(found) ==
  [ status |-> 200, success |-> TRUE, count |-> Len(found), total |-> Len(found),
    data |-> sortByName(found) ]

\* $group by company, $match the groups with a name, $project the trimmed
\* name, $match the names that are not empty, $sort by name.
companyGroups(found) ==
  LET keys == { found[k].company.text : k \in 1..Len(found) }
      named == { key \in keys : key # <<>> /\ trim(key) # <<>> }
      first(key) == SetMin({ k \in 1..Len(found) : found[k].company.text = key })
      order == SelectSeq(rowNumbers(found),
                         LAMBDA k : found[k].company.text \in named
                                    /\ k = first(found[k].company.text))
  IN  sortByName([i \in 1..Len(order) |->
        [ name |-> trim(found[order[i]].company.text),
          count |-> Len(SelectSeq(found,
                      LAMBDA d : d.company.text = found[order[i]].company.text)) ]])

companiesResponse(found) ==
  [ status |-> 200, success |-> TRUE, data |-> companyGroups(found) ]

\* GET /contacts
ListContacts(query) ==
  /\ listing' =
       [ pc |-> "done", route |-> "contacts", query |-> query,
         prev |-> prevListing(listing),
         matched |-> SelectSeq(contacts, LAMBDA d : matchesFilter("contacts", query, d)),
         response |-> contactsResponse(
           SelectSeq(contacts, LAMBDA d : matchesFilter("contacts", query, d))) ]
  /\ UNCHANGED <<storeVars, req, scoreArgs, scoreRes, dup, imp, put, imp2>>

\* GET /contacts/companies
ListCompanies(query) ==
  /\ listing' =
       [ pc |-> "done", route |-> "companies", query |-> query,
         prev |-> prevListing(listing),
         matched |-> SelectSeq(contacts, LAMBDA d : matchesFilter("companies", query, d)),
         response |-> companiesResponse(
           SelectSeq(contacts, LAMBDA d : matchesFilter("companies", query, d))) ]
  /\ UNCHANGED <<storeVars, req, scoreArgs, scoreRes, dup, imp, put, imp2>>

\* The stored values of an email, a phone number and a LinkedIn URL.
EmailValues ==
  { Missing, Null, Str(<<>>), Str(<<" ">>), Str(<<"-">>), Str(<<"-", " ">>),
    Str(<<"N", "a">>), Str(<<"n", "o", " ", "e", "m", "a", "i", "l">>),
    Str(<<"a", "b">>), Str(<<"a", "@", "b">>), Str(EmailA),
    Str(EmailA \o <<" ", "x">>), Str(EmailA \o <<"@", "x">>) }

PhoneValues == { Missing, Null, Str(<<>>), Str(<<" ">>), Str(<<"5">>) }

UrlValues == { Missing, Null, Str(<<>>), Str(<<" ">>), Str(<<"u">>) }

ListedDoc(id, name, company, email, firstPhone, personLinkedinUrl, companyLinkedinUrl) ==
  [ _id |-> id, name |-> name, company |-> company, email |-> email,
    firstPhone |-> firstPhone, personLinkedinUrl |-> personLinkedinUrl,
    companyLinkedinUrl |-> companyLinkedinUrl ]

\* The stores the listings read: a contact with every value in order, after
\* a contact of which one of email, phone and the LinkedIn URLs varies.
ListedStores ==
  LET full == ListedDoc(2, <<"A">>, Str(<<"C">>), Str(EmailB), Str(<<"5">>),
                        Str(<<"u">>), Missing)
      one(email, phone, person, company) ==
        ListedDoc(1, <<"B">>, Str(<<"C", " ">>), email, phone, person, company)
  IN  { <<one(e, Str(<<"5">>), Str(<<"u">>), Null), full>> : e \in EmailValues }
        \cup { <<one(Str(EmailA), p, Str(<<"u">>), Null), full>> : p \in PhoneValues }
        \cup { <<one(Str(EmailA), Str(<<"5">>), u[1], u[2]), full>> :
                 u \in UrlValues \X UrlValues }

FilterValues == {"yes", "no", "all"}

\* req.query: one filter at most, or all three.
ListQueries ==
  { query \in [ filterHasLinkedIn : FilterValues, filterHasEmail : FilterValues,
                filterHasPhone : FilterValues ] :
      \/ Cardinality({ f \in DOMAIN query : query[f] # "all" }) <= 1
      \/ \A f \in DOMAIN query : query[f] = "yes"
      \/ \A f \in DOMAIN query : query[f] = "no" }

InitListing ==
  /\ contacts \in ListedStores /\ links = <<>> /\ project = NoProject
  /\ req = IdleReq /\ dup = IdleDup /\ imp = IdleImp /\ put = IdlePut
  /\ listing = IdleListing /\ imp2 = IdleImp
  /\ scoreArgs = NoScoreArgs /\ scoreRes = <<>>

NextListing ==
  \/ \E query \in ListQueries : ListContacts(query)
  \/ \E query \in ListQueries : ListCompanies(query)

SpecListing == InitListing /\ [][NextListing]_vars

(***************************************************************************)
(* Two bulk imports in flight together: the second request takes the same  *)
(* steps as the first, on the same stores                                  *)
(***************************************************************************)

Imp2Start(variant, file, projectId) ==
  /\ imp2.pc \in {"idle", "done"}
  /\ imp2.n < MaxImports
  /\ imp2' = importStarted(imp2, variant, file, projectId,
                           [contacts |-> contacts, links |-> links])
  /\ UNCHANGED <<storeVars, req, scoreArgs, scoreRes, dup, imp, put, listing>>

Imp2Lookup ==
  /\ imp2.pc = "lookup"
  /\ imp2' = importLookedUp(imp2, contacts)
  /\ UNCHANGED <<storeVars, req, scoreArgs, scoreRes, dup, imp, put, listing>>

Imp2Recheck ==
  /\ imp2.pc = "recheck"
  /\ imp2' = importRechecked(imp2, contacts)
  /\ UNCHANGED <<storeVars, req, scoreArgs, scoreRes, dup, imp, put, listing>>

Imp2Insert ==
  /\ imp2.pc = "insert"
  /\ contacts' = contacts \o insertedContacts(imp2.contactsToInsert, {}, contacts)
  /\ imp2' = importInserted(imp2, {}, contacts)
  /\ UNCHANGED <<links, project, req, scoreArgs, scoreRes, dup, imp, put, listing>>

Imp2FindLinks ==
  /\ imp2.pc = "findLinks"
  /\ imp2' = importFoundLinks(imp2, links)
  /\ UNCHANGED <<storeVars, req, scoreArgs, scoreRes, dup, imp, put, listing>>

Imp2UpdateRead ==
  /\ imp2.pc = "updateRead"
  /\ imp2' = importReadExisting(imp2, contacts)
  /\ UNCHANGED <<storeVars, req, scoreArgs, scoreRes, dup, imp, put, listing>>

Imp2UpdateWrite ==
  /\ imp2.pc = "updateWrite"
  /\ contacts' = updatedContacts(contacts, imp2, 1)
  /\ imp2' = [imp2 EXCEPT !.pc = "link"]
  /\ UNCHANGED <<links, project, req, scoreArgs, scoreRes, dup, imp, put, listing>>

Imp2Link ==
  /\ imp2.pc = "link"
  /\ links' = insertManyLinks(links, projectContactsOf(imp2), {}, 1)
  /\ imp2' = importLinked(imp2, links, {})
  /\ UNCHANGED <<contacts, project, req, scoreArgs, scoreRes, dup, imp, put, listing>>

\* The files of the two requests: the same contact, with a job title that
\* differs from one file to the other, and in one file a second contact.
ConcurrentFiles ==
  { << << Row(Al, EmailA, <<"C">>, CTO, <<>>) >> >>,
    << << Row(Al, EmailA, <<"C">>, <<"v">>, <<>>), Row(Bo, EmailB, <<"C">>, <<>>, <<>>) >> >> }

InitConcurrent ==
  /\ contacts \in RaceStores /\ links = <<>> /\ project = NoProject
  /\ req = IdleReq /\ dup = IdleDup /\ imp = IdleImp /\ put = IdlePut
  /\ listing = IdleListing /\ imp2 = IdleImp
  /\ scoreArgs = NoScoreArgs /\ scoreRes = <<>>

NextConcurrent ==
  \/ /\ imp.n < MaxRaceImports
     /\ \E variant \in Variants, file \in ConcurrentFiles : ImpStart(variant, file, ProjectId)
  \/ ImpLookup
  \/ ImpRecheck
  \/ ImpInsert
  \/ ImpFindLinks
  \/ ImpUpdateRead
  \/ ImpUpdateWrite
  \/ ImpLink
  \/ ImpInsertDuplicateKey
  \/ ImpRefind
  \/ /\ imp2.n < MaxRaceImports
     /\ \E variant \in Variants, file \in ConcurrentFiles : Imp2Start(variant, file, ProjectId)
  \/ Imp2Lookup
  \/ Imp2Recheck
  \/ Imp2Insert
  \/ Imp2FindLinks
  \/ Imp2UpdateRead
  \/ Imp2UpdateWrite
  \/ Imp2Link

SpecConcurrent == InitConcurrent /\ [][NextConcurrent]_vars

(***************************************************************************)
(* Properties                                                              *)
(***************************************************************************)

\* The finished similar-contacts response.
Responded == req.pc = "done" /\ req.response.status = 200
Data == req.response.data
ScoredEntries == SelectSeq(Data, LAMBDA e : ~e.isImported)

\* The stated tier rank: exact < good < similar < loose.
tierRank(matchType) ==
  CASE matchType = "exact" -> 0
    [] matchType = "good" -> 1
    [] matchType = "similar" -> 2
    [] matchType = "loose" -> 3

\* C1: in a response for a project with a defined ICP, of two scored
\* candidates the one listed first has the lower tier rank (exact, good,
\* similar, loose), or the same tier and a score that is not lower.
C1_ScoredOrderedByTierThenScore ==
  (Responded /\ req.response.hasICP) =>
    \A i, j \in 1..Len(ScoredEntries) :
      i < j =>
        LET a == ScoredEntries[i]
            b == ScoredEntries[j]
        IN  \/ tierRank(a.matchType) < tierRank(b.matchType)
            \/ /\ tierRank(a.matchType) = tierRank(b.matchType)
               /\ a.matchScore >= b.matchScore

\* The ids of the project's linked contacts that exist in the Contact
\* store, in the order of the Link store.
LinkedContactIds ==
  LET linked == SelectSeq(links, LAMBDA l : \E k \in 1..Len(contacts) : contacts[k]._id = l.contactId)
  IN  [k \in 1..Len(linked) |-> linked[k].contactId]

ImportedIds ==
  LET imported == SelectSeq(Data, LAMBDA e : e.isImported)
  IN  [k \in 1..Len(imported) |-> imported[k]._id]

\* C2: in every response the already-linked contacts come first, all of
\* them, in the order of the Link store, and no scored candidate precedes
\* one of them.
C2_ImportedBeforeScored ==
  Responded =>
    /\ ImportedIds = LinkedContactIds
    /\ \A i, j \in 1..Len(Data) : (i < j /\ Data[j].isImported) => Data[i].isImported
    /\ \A i \in 1..Len(Data) : Data[i].isImported <=> Data[i].matchType = "imported"

\* C2's case: two linked contacts are listed before a scored candidate of
\* the highest tier.
C2_Witness ==
  /\ Responded
  /\ Len(ImportedIds) >= 2
  /\ \E i \in 1..Len(ScoredEntries) : ScoredEntries[i].matchScore >= 80

\* The application of the scoring step.
Scored == scoreRes # <<>>
Result == scoreRes[1].matchResult
Entry == scoreRes[1].scored

IsEmptyCandidate(c) ==
  /\ c.industry = <<>> /\ c.title = <<>> /\ c.employees = <<>> /\ c.keywords = <<>>
  /\ \A f \in GeoFields : c[f] = <<>>

\* C3: a contact with no populated field, scored against an ICP that sets
\* industries, job titles, a size range, geographies and keywords, gets
\* score 0 and tier loose.
C3_EmptyContactScoresZero ==
  ( /\ Scored
    /\ IsEmptyCandidate(scoreArgs.contact)
    /\ Len(scoreArgs.icp.targetIndustries) > 0
    /\ Len(scoreArgs.icp.targetJobTitles) > 0
    /\ hasMeaningfulCompanySize(scoreArgs.icp)
    /\ Len(scoreArgs.icp.geographies) > 0
    /\ Len(scoreArgs.icp.keywords) > 0 )
  => /\ Result.score.num = 0
     /\ Entry.matchScore = 0
     /\ Entry.matchType = "loose"

\* C4: with only targetIndustries set and the size range at its default
\* 0-1000, maxScore is 30 and the percentage is 0 or 100.
C4_IndustriesOnlyMaxScore30 ==
  ( /\ Scored
    /\ Len(scoreArgs.icp.targetIndustries) > 0
    /\ Len(scoreArgs.icp.targetJobTitles) = 0
    /\ Len(scoreArgs.icp.geographies) = 0
    /\ Len(scoreArgs.icp.keywords) = 0
    /\ scoreArgs.icp.companySizeMin = 0 /\ scoreArgs.icp.companySizeMax = 1000 )
  => /\ Result.maxScore = 30
     /\ \/ Result.percentage.num = 0
        \/ FracEq(Result.percentage, [num |-> 100, den |-> 1])

\* The stated rubric.  A criterion is present when its list is not empty,
\* the size range when it is not the default 0-1000; an empty text neither
\* contains nor is contained.
containsCaseInsensitive(haystack, needle) ==
  needle # <<>> /\ includes(toLowerCase(haystack), toLowerCase(needle))

rubricIndustry(c, icp) ==
  \E k \in 1..Len(icp.targetIndustries) :
    \/ containsCaseInsensitive(c.industry, icp.targetIndustries[k])
    \/ containsCaseInsensitive(icp.targetIndustries[k], c.industry)

rubricTitle(c, icp) ==
  \E k \in 1..Len(icp.targetJobTitles) :
    \/ containsCaseInsensitive(c.title, icp.targetJobTitles[k])
    \/ containsCaseInsensitive(icp.targetJobTitles[k], c.title)

rubricSize(c, icp) ==
  /\ DigitRunValues(c.employees) # {}
  /\ SetMax(DigitRunValues(c.employees)) >= icp.companySizeMin
  /\ SetMax(DigitRunValues(c.employees)) <= icp.companySizeMax

rubricGeo(c, icp) ==
  \E k \in 1..Len(icp.geographies), f \in GeoFields :
    containsCaseInsensitive(c[f], icp.geographies[k])

rubricKeywords(c, icp) ==
  Cardinality({ k \in 1..Len(icp.keywords) :
                  containsCaseInsensitive(c.keywords, icp.keywords[k]) })

rubricMaxScore(icp) ==
  (IF Len(icp.targetIndustries) > 0 THEN 30 ELSE 0)
  + (IF Len(icp.targetJobTitles) > 0 THEN 25 ELSE 0)
  + (IF hasMeaningfulCompanySize(icp) THEN 20 ELSE 0)
  + (IF Len(icp.geographies) > 0 THEN 15 ELSE 0)
  + (IF Len(icp.keywords) > 0 THEN 10 ELSE 0)

\* The rubric's score, as a fraction over the number of target keywords.
rubricScore(c, icp) ==
  LET total == IF Len(icp.keywords) > 0 THEN Len(icp.keywords) ELSE 1
      whole == (IF rubricIndustry(c, icp) THEN 30 ELSE 0)
               + (IF rubricTitle(c, icp) THEN 25 ELSE 0)
               + (IF hasMeaningfulCompanySize(icp) /\ rubricSize(c, icp) THEN 20 ELSE 0)
               + (IF rubricGeo(c, icp) THEN 15 ELSE 0)
  IN  [num |-> whole * total + 10 * rubricKeywords(c, icp), den |-> total]

\* C5: calculateMatchScore equals the weighted rubric: score, maxScore and
\* percentage = 100 x score / maxScore (0 when maxScore is 0).
C5_ScoreEqualsRubric ==
  Scored =>
    LET score == rubricScore(scoreArgs.contact, scoreArgs.icp)
        maxScore == rubricMaxScore(scoreArgs.icp)
    IN  /\ FracEq(Result.score, score)
        /\ Result.maxScore = maxScore
        /\ FracEq(Result.percentage,
                  IF maxScore = 0 THEN [num |-> 0, den |-> 1]
                  ELSE [num |-> 100 * score.num, den |-> score.den * maxScore])

\* C6: the tier of a scored candidate follows from its percentage by the
\* thresholds 80, 50 and 30, and its matchScore is an integer in 0..100.
C6_TierFromThresholds ==
  Scored =>
    LET p == Result.percentage
    IN  /\ (Entry.matchType = "exact") <=> FracGeq(p, 80)
        /\ (Entry.matchType = "good") <=> (FracGeq(p, 50) /\ FracLt(p, 80))
        /\ (Entry.matchType = "similar") <=> (FracGeq(p, 30) /\ FracLt(p, 50))
        /\ (Entry.matchType = "loose") <=> FracLt(p, 30)
        /\ Entry.matchScore \in 0..100
        /\ 2 * Entry.matchScore * p.den <= 2 * p.num + p.den
        /\ 2 * p.num - p.den < 2 * Entry.matchScore * p.den

\* C6's case: a scored candidate whose percentage is exactly 80, the lowest
\* of the tier exact.
C6_Witness ==
  /\ Scored
  /\ FracEq(Result.percentage, [num |-> 80, den |-> 1])
  /\ Entry.matchType = "exact"
  /\ Entry.matchScore = 80

\* C7: with a size range in the ICP, the company-size criterion matches
\* exactly when the employees text has a digit run and the largest of the
\* runs lies in [companySizeMin, companySizeMax], 0 included.
C7_SizeMatchesIffLargestRunInRange ==
  Scored =>
    ( Result.matchedCriteria.companySize
      <=> rubricSize(scoreArgs.contact, scoreArgs.icp) )

\* No meaningful criterion: every list empty and the size range at its
\* default.
NoMeaningfulCriteria(icp) ==
  /\ Len(icp.targetIndustries) = 0 /\ Len(icp.targetJobTitles) = 0
  /\ Len(icp.geographies) = 0 /\ Len(icp.keywords) = 0
  /\ icp.companySizeMin = 0 /\ icp.companySizeMax = 1000

\* C8: without meaningful criteria the response holds exactly the linked
\* contacts, each tagged imported and carrying score 100.
C8_NoCriteriaImportedWithScore100 ==
  (Responded /\ NoMeaningfulCriteria(req.project.icpDefinition)) =>
    /\ [k \in 1..Len(Data) |-> Data[k]._id] = LinkedContactIds
    /\ \A k \in 1..Len(Data) :
         /\ Data[k].matchType = "imported"
         /\ "matchScore" \in DOMAIN Data[k]
         /\ Data[k].matchScore = 100

\* C9: the response reports hasICP = true, and scores candidates, exactly
\* when a list of the ICP is not empty or the size range is not (0, 1000).
C9_HasICPIffAnyCriterion ==
  Responded =>
    (req.response.hasICP <=> ~NoMeaningfulCriteria(req.project.icpDefinition))

\* The duplicate check a create-contact request has made, and the store it
\* was made against.
Checked == dup.pc \in {"create", "done"}
StoreAtCheck ==
  IF dup.pc = "done" /\ dup.response.status = 201
  THEN SubSeq(contacts, 1, Len(contacts) - 1)
  ELSE contacts

normalize(text) == trim(toLowerCase(text))

\* C10: a candidate whose normalized (lower-cased, trimmed) name and email
\* equal the normalized name and email of a stored contact is reported as a
\* duplicate.
C10_SameNormalizedNameEmailIsDuplicate ==
  Checked =>
    ( ( \E k \in 1..Len(StoreAtCheck) :
          /\ normalize(dup.body.name) # <<>>
          /\ normalize(dup.body.email) # <<>>
          /\ normalize(StoreAtCheck[k].name) = normalize(dup.body.name)
          /\ normalize(StoreAtCheck[k].email) = normalize(dup.body.email) )
      => dup.duplicateCheck.isDuplicate )

\* A stored text matches a candidate's text: the stored text, as it is,
\* equals the candidate's lower-cased and trimmed text without regard to case.
matchesText(stored, candidateText) == toLowerCase(stored) = normalize(candidateText)

storedWith(name, field, text) ==
  \E k \in 1..Len(StoreAtCheck) :
    /\ matchesText(StoreAtCheck[k].name, name)
    /\ matchesText(StoreAtCheck[k][field], text)

storedBareName(name) ==
  \E k \in 1..Len(StoreAtCheck) :
    /\ matchesText(StoreAtCheck[k].name, name)
    /\ StoreAtCheck[k].email = <<>>
    /\ StoreAtCheck[k].company = <<>>

\* C11: the duplicate check is the three-rule cascade. With a name and an
\* email it reports a duplicate exactly when a stored contact matches name and
\* email (the company plays no part); with a name and a company and no email,
\* exactly when a stored contact matches name and company; with a name only,
\* exactly when a stored contact matches the name and has neither email nor
\* company; without a name, never.
C11_CheckDuplicateIsCascade ==
  Checked =>
    LET name == normalize(dup.body.name)
        email == normalize(dup.body.email)
        company == normalize(dup.body.company)
        isDuplicate == dup.duplicateCheck.isDuplicate
    IN  /\ (name # <<>> /\ email # <<>>) =>
              (isDuplicate <=> storedWith(dup.body.name, "email", dup.body.email))
        /\ (name # <<>> /\ email = <<>> /\ company # <<>>) =>
              (isDuplicate <=> storedWith(dup.body.name, "company", dup.body.company))
        /\ (name # <<>> /\ email = <<>> /\ company = <<>>) =>
              (isDuplicate <=> storedBareName(dup.body.name))
        /\ (name = <<>>) => ~isDuplicate

\* A bare-name candidate was checked against a store holding a contact of
\* that name without email but with a company, and was not a duplicate.
C11_Witness ==
  /\ Checked
  /\ normalize(dup.body.name) # <<>>
  /\ dup.body.email = <<>> /\ dup.body.company = <<>>
  /\ \E k \in 1..Len(StoreAtCheck) :
        /\ matchesText(StoreAtCheck[k].name, dup.body.name)
        /\ StoreAtCheck[k].email = <<>>
        /\ StoreAtCheck[k].company # <<>>
  /\ ~dup.duplicateCheck.isDuplicate

\* C12: a create-contact request rejected as a duplicate ends as a conflict
\* whose body carries the matched stored contact and the reason, and the
\* store is left as it was.
C12_ConflictCarriesExistingAndReason ==
  (dup.pc = "done" /\ dup.duplicateCheck.isDuplicate) =>
    /\ dup.response.status = 409
    /\ dup.response.error = dup.duplicateCheck.reason
    /\ \E f \in {"existing", "existingContact", "data"} \cap DOMAIN dup.response :
          dup.response[f] = dup.duplicateCheck.existingContact[1]
    /\ contacts = StoreAtCheck

\* The finished bulk-import request and its counts.
ImportSucceeded == imp.pc = "done" /\ imp.response.status = 200
ImportData == imp.response.data
ImportRows == imp.file[1]

\* The request repeats the one before it, which started from empty stores
\* and succeeded.
Reimport ==
  /\ ImportSucceeded
  /\ imp.prev # <<>>
  /\ imp.prev[1].status = 200
  /\ imp.prev[1].file = imp.file
  /\ imp.prev[1].variant = imp.variant
  /\ imp.prev[1].before.contacts = <<>>
  /\ imp.prev[1].before.links = <<>>

\* C13: the second of two imports of the same file, the first of which
\* started from empty stores, adds no contact, changes no stored field, adds
\* no link, counts every contact of the batch as already linked and reports
\* imported = 0, in the strict and in the lenient variant.
C13_ReimportChangesNothing ==
  Reimport =>
    /\ contacts = imp.before.contacts
    /\ links = imp.before.links
    /\ ImportData.imported = 0
    /\ ImportData.newContactsInDatabank = 0
    /\ ImportData.alreadyInProject = Len(links)
    /\ ImportData.alreadyInProject = ImportData.existingContactsInDatabank

C13_Witness ==
  /\ Reimport
  /\ imp.variant = "lenient"
  /\ Len(links) >= 2

\* The stored and the imported values of an attribute.
blank(text) == trim(text) = <<>>
AttributeFields == {"name", "company", "title", "firstPhone", "industry"}
storedBefore(id) ==
  CHOOSE c \in { imp.before.contacts[i] : i \in 1..Len(imp.before.contacts) } : c._id = id
storedAfter(id) == CHOOSE c \in { contacts[i] : i \in 1..Len(contacts) } : c._id = id
draftValue(draft, f) == IF f \in DOMAIN draft THEN draft[f] ELSE <<>>

C15_OneLinkPerPair ==
  \A i, j \in 1..Len(links) : links[i].contactId = links[j].contactId => i = j

\* A link insert was rejected by the unique index.
C15_Witness ==
  \/ put.pc = "done" /\ put.projectContact = <<>> /\ put.response.status = 400
  \/ ImportSucceeded /\ imp.failed = {} /\ imp.writeErrors > 0

\* C16: creating a link for a pair that has one is a no-op and succeeds: an
\* import whose link insert met a duplicate key ends with a success and
\* counts the pair as skipped, and a link upsert that found no link ends with
\* a success whether or not the pair got a link meanwhile.
C16_ExistingPairIsNoOp ==
  /\ (imp.pc = "done" /\ imp.failed = {} /\ imp.writeErrors > 0) =>
        /\ imp.response.status = 200
        /\ ImportData.alreadyInProject >= imp.writeErrors
  /\ (put.pc = "done" /\ put.projectContact = <<>>) =>
        /\ put.response.status = 200
        /\ \E k \in 1..Len(links) : links[k].contactId = put.contactId

\* C17: the step that inserts the links and answers with a success reports
\* as imported the number of links the store gained in that step.
C17_ImportedIsLinksCreated ==
  [][ (imp.pc = "link" /\ imp'.pc = "done" /\ imp'.response.status = 200) =>
        imp'.response.data.imported = Len(links') - Len(links) ]_vars

\* A successful import part of whose link insert was rejected.
C17_Witness ==
  /\ ImportSucceeded
  /\ imp.writeErrors > 0
  /\ ImportData.imported > 0
  /\ ImportData.imported < Len(imp.projectContacts)

\* C18: a successful response has the six counts as numbers, and skipped is
\* the duplicates of the file plus the already linked.
CountFields ==
  { "total", "duplicatesInCSV", "alreadyInProject", "newContactsInDatabank",
    "existingContactsInDatabank", "projectContactsCreated" }

C18_SixNumericCounts ==
  ImportSucceeded =>
    /\ CountFields \subseteq DOMAIN ImportData
    /\ \A f \in CountFields \cup {"skipped"} : ImportData[f] \in Nat
    /\ ImportData.skipped = ImportData.duplicatesInCSV + ImportData.alreadyInProject

\* C19: in a successful response the rows of the file are the links created
\* plus the duplicates of the file plus the already linked plus the errors.
reportedCount(f) == IF f \in DOMAIN ImportData THEN ImportData[f] ELSE 0

C19_EveryRowAccounted ==
  ImportSucceeded =>
    Len(ImportRows) = ImportData.imported + reportedCount("duplicatesInCSV")
                        + ImportData.alreadyInProject + ImportData.errors

\* C20: an import during which the store failed a write for a reason other
\* than a duplicate key ends with a server error.
C20_StoreFailureIsServerError ==
  (imp.pc = "done" /\ imp.failed # {}) => imp.response.status = 500

\* A bulk-import request that ended as a client error.
ImportRejected == imp.pc = "done" /\ imp.response.status \in {400, 404}

\* C21: a bulk-import request that is rejected as a client error (no file,
\* no project id, project not found, unreadable file, no rows in the file)
\* leaves the Contact store and the Link store as they were when it started.
C21_RejectedImportWritesNothing ==
  ImportRejected => contacts = imp.before.contacts /\ links = imp.before.links

\* A file with rows none of which is taken, rejected on a store that holds a
\* contact, after an import that wrote to the stores.
C21_Witness ==
  /\ ImportRejected
  /\ imp.file # <<>> /\ imp.file[1] # <<>>
  /\ imp.before.contacts # <<>> /\ imp.before.links # <<>>

\* The finished listing and the one before it asked the same route for the
\* contacts that have (this one) and that do not have (the one before) the
\* attribute f, with no other filter.
HasFilters == {"filterHasLinkedIn", "filterHasEmail", "filterHasPhone"}
NoFilter == [f \in HasFilters |-> "all"]
YesThenNo(f) ==
  /\ listing.pc = "done" /\ listing.prev # <<>>
  /\ listing.prev[1].route = listing.route
  /\ listing.query = [NoFilter EXCEPT ![f] = "yes"]
  /\ listing.prev[1].query = [NoFilter EXCEPT ![f] = "no"]
selectedBy(matched, doc) == \E k \in 1..Len(matched) : matched[k]._id = doc._id

\* C22: for each of email, phone and LinkedIn, in the contacts listing and
\* in the companies listing, every contact the route lists without a filter
\* is selected by exactly one of the 'has' and the 'does not have' filter,
\* whatever value it has stored.
C22_HasAndHasNotPartition ==
  \A f \in HasFilters :
    YesThenNo(f) =>
      \A k \in 1..Len(contacts) :
        matchesFilter(listing.route, NoFilter, contacts[k]) =>
          selectedBy(listing.matched, contacts[k])
            # selectedBy(listing.prev[1].matched, contacts[k])

\* Both imports have answered with success.
BothImported ==
  /\ imp.pc = "done" /\ imp.response.status = 200
  /\ imp2.pc = "done" /\ imp2.response.status = 200

storedWithEmail(email) ==
  { k \in 1..Len(contacts) : toLowerCase(contacts[k].email) = email }

\* C23: two bulk imports in flight together whose files hold the same
\* email, which no stored contact has, end with exactly one stored contact
\* of that email, however their lookups and inserts interleave.
C23_ConcurrentImportsStoreEmailOnce ==
  (BothImported /\ imp.before.contacts = <<>> /\ imp2.before.contacts = <<>>)
    => Cardinality(storedWithEmail(EmailA)) = 1

\* The first import has answered after the store rejected rows of its
\* insert with a duplicate key.
RowsRejected == imp.pc = "done" /\ "duplicateKey" \in imp.failed
linkedIds == { links[k].contactId : k \in 1..Len(links) }

C25_PopulatedFieldNeverOverwritten ==
  [][\A k \in 1..Len(contacts) : \A f \in AttributeFields :
       ~blank(contacts[k][f]) => contacts'[k][f] = contacts[k][f]]_vars

\* The parsed contacts of the import and those left after the duplicates
\* inside the file were dealt with.
Parsed == imp.pc # "idle" /\ imp.contacts # <<>>
repeatsEarlier(seq, i) == \E j \in 1..(i - 1) : seq[j].email = seq[i].email
pairwiseDistinctEmails(seq) ==
  \A i, j \in 1..Len(seq) : i # j => seq[i].email # seq[j].email
firstWithEmail(seq, email) == SetMin({ i \in 1..Len(seq) : seq[i].email = email })

\* C26: in the strict variant every contact of the batch whose normalized
\* email equals that of an earlier contact is dropped and listed in
\* duplicatesInCSV, the first contact of each email is kept, in the order
\* of the batch, and the emails of the kept contacts are pairwise distinct.
C26_StrictDropsRepeatedEmails ==
  (Parsed /\ imp.variant = "strict") =>
    /\ \A i \in 1..Len(imp.contacts) :
         repeatsEarlier(imp.contacts, i)
           <=> \E d \in 1..Len(imp.duplicatesInCSV.items) : imp.duplicatesInCSV.items[d] = i
    /\ Len(imp.uniqueContacts) + Len(imp.duplicatesInCSV.items) = Len(imp.contacts)
    /\ pairwiseDistinctEmails(imp.uniqueContacts)
    /\ \A k \in 1..Len(imp.uniqueContacts) :
         /\ imp.uniqueContacts[k]
              = imp.contacts[firstWithEmail(imp.contacts, imp.uniqueContacts[k].email)]
         /\ \A h \in 1..(k - 1) :
              firstWithEmail(imp.contacts, imp.uniqueContacts[h].email)
                < firstWithEmail(imp.contacts, imp.uniqueContacts[k].email)
    /\ ImportSucceeded => ImportData.duplicatesInCSV = Len(imp.duplicatesInCSV.items)

\* A batch of four contacts, two of which repeat the email of the first.
C26_Witness ==
  /\ ImportSucceeded /\ imp.variant = "strict"
  /\ Len(imp.contacts) = 4 /\ Len(imp.uniqueContacts) = 2
  /\ ImportData.duplicatesInCSV = 2

\* C27: in the lenient variant no contact of the batch is dropped: the
\* output has the contacts of the input in their order, a contact whose
\* email is not among the earlier output emails keeps it, any other (so
\* every contact whose email repeats an earlier one) gets the email with a
\* counter before the @, and the output emails are pairwise distinct.
C27_LenientKeepsEveryRow ==
  (Parsed /\ imp.variant = "lenient") =>
    /\ Len(imp.uniqueContacts) = Len(imp.contacts)
    /\ pairwiseDistinctEmails(imp.uniqueContacts)
    /\ \A i \in 1..Len(imp.contacts) :
         /\ imp.uniqueContacts[i]
              = Assign(imp.contacts[i], [email |-> imp.uniqueContacts[i].email])
         /\ IF \E j \in 1..(i - 1) : imp.uniqueContacts[j].email = imp.contacts[i].email
            THEN \E counter \in 1..Len(imp.contacts) :
                   imp.uniqueContacts[i].email
                     = suffixedEmail(imp.contacts[i].email, i - 1, counter)
            ELSE imp.uniqueContacts[i].email = imp.contacts[i].email
         /\ repeatsEarlier(imp.contacts, i)
              => imp.uniqueContacts[i].email # imp.contacts[i].email

\* A batch where an email occurs three times and the email made for its
\* second occurrence is the real email of a later contact.
C27_Witness ==
  /\ Parsed /\ imp.variant = "lenient" /\ imp.pc = "done"
  /\ Len(imp.contacts) = 4
  /\ [i \in 1..4 |-> imp.uniqueContacts[i].email]
       = << EmailA, EmailA1, <<"a", "1", "1", "@", "b", ".", "c">>,
            <<"a", "2", "@", "b", ".", "c">> >>

\* The candidates the request retrieved that were not linked when it read
\* the links, scored and sorted in one pass.
ReadLinkedIds ==
  { req.importedProjectContacts[k].contactId[1]._id :
      k \in { j \in 1..Len(req.importedProjectContacts) :
                req.importedProjectContacts[j].contactId # <<>> } }
SinglePass ==
  LET fresh == SelectSeq(req.similarContacts, LAMBDA c : c._id \notin ReadLinkedIds)
  IN  sortScored([k \in 1..Len(fresh) |-> scoreContact(fresh[k], req.project.icpDefinition)])
retrievalPlace(id) ==
  SetMin({ k \in 1..Len(req.similarContacts) : req.similarContacts[k]._id = id })

\* C28: whatever is written to the stores between the steps of the
\* request, and with the pool scored in batches, the response lists the
\* imported entries and then the retrieved candidates as one pass over the
\* pool scores and sorts them, the candidates of equal tier and score in the
\* order in which the store returned them.
C28_ResponseIsSinglePassOverPool ==
  (Responded /\ req.response.hasICP) =>
    /\ Data = importedEntries(req.importedProjectContacts, TRUE) \o SinglePass
    /\ \A t \in {"exact", "good", "similar", "loose"} :
         req.response.matchStats[t] = Len(SelectSeq(SinglePass, LAMBDA e : e.matchType = t))
    /\ \A i, j \in 1..Len(ScoredEntries) :
         ( /\ i < j
           /\ ScoredEntries[i].matchType = ScoredEntries[j].matchType
           /\ ScoredEntries[i].matchScore = ScoredEntries[j].matchScore )
           => retrievalPlace(ScoredEntries[i]._id) < retrievalPlace(ScoredEntries[j]._id)

\* A pool of more than one batch with two candidates of equal tier and
\* score, one of which was linked while the request was scoring.
C28_Witness ==
  /\ Responded /\ req.response.hasICP
  /\ Len(req.similarContacts) > batchSize
  /\ \E i, j \in 1..Len(ScoredEntries) :
       /\ i < j
       /\ ScoredEntries[i].matchType = ScoredEntries[j].matchType
       /\ ScoredEntries[i].matchScore = ScoredEntries[j].matchScore
       /\ ScoredEntries[i].matchType # ScoredEntries[Len(ScoredEntries)].matchType
  /\ \E i \in 1..Len(ScoredEntries), k \in 1..Len(links) :
       links[k].contactId = ScoredEntries[i]._id

\* A stored contact that meets a criterion the ICP has, no exclusion, and
\* is neither linked nor the project's contact person.
meetsCriterion(c, icp) ==
  \/ \E k \in 1..Len(orConditions(icp)) : matchesCondition(c, orConditions(icp)[k])
  \/ /\ hasMeaningfulCompanySize(icp)
     /\ calculateMatchScore(c, icp).matchedCriteria.companySize
excluded(c, icp) ==
  \E k \in 1..Len(icp.exclusionCriteria) :
    \E f \in {"industry", "company", "keywords"} : regexI(c[f], icp.exclusionCriteria[k])
linkedInStore(id) == \E k \in 1..Len(links) : links[k].contactId = id
PoolCapped ==
  /\ "similarContacts" \in DOMAIN req
  /\ Len(req.similarContacts) \in LimitQueries \ {0}

\* C29: when the ICP is defined, every stored contact that meets one of
\* its criteria (industry, job title, size range, geography, keyword), is
\* not excluded, not linked and not the contact person is among the scored
\* candidates, unless the pool was cut at its cap.
C29_CandidatesAreUnionOfCriteria ==
  (Responded /\ hasICP(req.project.icpDefinition) /\ ~PoolCapped) =>
    \A k \in 1..Len(contacts) :
      ( /\ meetsCriterion(contacts[k], req.project.icpDefinition)
        /\ ~excluded(contacts[k], req.project.icpDefinition)
        /\ ~linkedInStore(contacts[k]._id)
        /\ (req.project.contactPerson.email # <<>>
              => contacts[k].email # req.project.contactPerson.email) )
        => \E i \in 1..Len(ScoredEntries) : ScoredEntries[i]._id = contacts[k]._id

\* C30: no contact is listed twice in a response: each contact that was
\* linked when the request read the links is listed once, as imported, the
\* others at most once, and the imported count and the four tier counts of
\* matchStats add up to the length of the list.
C30_NoContactListedTwice ==
  Responded =>
    /\ \A i, j \in 1..Len(Data) : i # j => Data[i]._id # Data[j]._id
    /\ \A i \in 1..Len(Data) :
         /\ (req.response.hasICP /\ Data[i]._id \in ReadLinkedIds) => Data[i].isImported
         /\ (Data[i].isImported /\ linkedInStore(Data[i]._id)) => Data[i].matchType = "imported"
    /\ req.response.hasICP => \A id \in ReadLinkedIds : \E i \in 1..Len(Data) : Data[i]._id = id
    /\ req.response.matchStats.imported + req.response.matchStats.exact
         + req.response.matchStats.good + req.response.matchStats.similar
         + req.response.matchStats.loose = Len(Data)
    /\ req.response.count = Len(Data)

\* A response with an imported entry and scored candidates of two tiers.
C30_Witness ==
  /\ Responded /\ req.response.hasICP
  /\ req.response.matchStats.imported >= 1
  /\ Len(ScoredEntries) >= 2
  /\ ScoredEntries[1].matchType # ScoredEntries[Len(ScoredEntries)].matchType

====
